---- MODULE Spec2Model ----
(***************************************************************************)
(* Model of the movement-segmentation and flick-analysis engine            *)
(* (src/logic/analysis/metrics.py, class CrosshairMetrics) and of the TDM  *)
(* driver (src/tests/analyzeTdm.py): the diagnostics record it computes    *)
(* from the smoothed positions and the verdict it derives from a record.   *)
(*                                                                         *)
(* Units.  Coordinates are integers (pixels).  Every other quantity        *)
(* (timestamps and time differences in seconds, distances in pixels,       *)
(* velocities in pixels per second, means and percentiles of these) is a   *)
(* binary64 floating-point number, as in the source, and every operation   *)
(* on them rounds as the source's does: 0.03 - 0.02 is                     *)
(* 0.009999999999999998 and 100 divided by it is 10000.000000000002.  A    *)
(* timestamp is the float nearest to a number of 64ths or of hundredths of *)
(* a second, or to frameNumber / fps.  Sums are added in the order the     *)
(* source adds them (sum() from left to right, np.mean and np.std          *)
(* pairwise).                                                              *)
(*                                                                         *)
(* The movement field "direction" (atan2 in degrees) is kept as the        *)
(* shortest integer vector of that angle.  A comparison of two angles is   *)
(* decided from dx and dy, except the driver's test of a difference        *)
(* against pi / 2 on exactly perpendicular directions, which the rounding  *)
(* of arctan2 in the numeric library decides: both outcomes are outcomes   *)
(* of the model.                                                           *)
(***************************************************************************)
EXTENDS Integers, Sequences, FiniteSets

VARIABLES positions, movements, op, arg, ret

vars == <<positions, movements, op, arg, ret>>

----------------------------------------------------------------------------
(* Bounds of the enumerated inputs *)

MaxLen == 4

MaxTrackLen == 8

MaxLookAhead == 2

AnalysisLen == 12

MaxAccuracyLen == 3

MaxTargets == 3

MaxFrames == 4

MaxSampleRate == 3

(* Program constants *)

DefaultFlickThreshold == 2000

DefaultTrackingThreshold == 500

DefaultLookAheadFrames == 10

SmallFlickLimit == 100

MediumFlickLimit == 300

MinTrackingDistance == 5

MinTrackingRun == 3

CorrectionPixels == 2

----------------------------------------------------------------------------
(* Binary floating point.  Python's float and numpy's float64 are IEEE 754 *)
(* binary64: every +, -, *, / and sqrt returns the representable number    *)
(* nearest to the exact result, ties to the even mantissa.  A float is     *)
(* kept as sign * (hi * 2^28 + lo) * 2^exp with an odd mantissa of at most *)
(* 53 bits, so that equal numbers are equal records; 0 is Zero.            *)
(* Infinities, NaN operands and subnormal numbers do not occur at the      *)
(* magnitudes of the model (NaN as a result is the value NaN below).       *)

Only(s) == CHOOSE x \in s : TRUE

Abs(n) == IF n < 0 THEN -n ELSE n

Max(a, b) == IF a > b THEN a ELSE b

Min(a, b) == IF a < b THEN a ELSE b

Limb == 2^28

Digit == 2^14

Zero == [sign |-> 0, exp |-> 0, hi |-> 0, lo |-> 0]

(* number of binary digits of 0 <= n < 2^30 *)
BitLength(n) == CHOOSE k \in 0..30 : n < 2^k /\ (k = 0 \/ n >= 2^(k - 1))

(* number of trailing zero bits of 0 < n < 2^30 *)
TrailingZeros(n) == CHOOSE k \in 0..29 : n % 2^k = 0 /\ n % 2^(k + 1) # 0

(* two-limb naturals <<hi, lo>> = hi * 2^28 + lo *)
WideLength(w) == IF w[1] = 0 THEN BitLength(w[2]) ELSE 28 + BitLength(w[1])

WideShiftRight(w, k) ==
    IF k >= 56 THEN <<0, 0>>
    ELSE IF k >= 28 THEN <<0, w[1] \div 2^(k - 28)>>
    ELSE <<w[1] \div 2^k, w[2] \div 2^k + (w[1] % 2^k) * 2^(28 - k)>>

(* the bits WideShiftRight(w, k) drops are not all 0 *)
WideLostBits(w, k) ==
    IF k >= 56 THEN w # <<0, 0>>
    ELSE IF k >= 28 THEN w[2] # 0 \/ w[1] % 2^(k - 28) # 0
    ELSE w[2] % 2^k # 0

WideShiftLeft(w, k) ==
    IF k >= 28 THEN <<w[2] * 2^(k - 28), 0>>
    ELSE <<w[1] * 2^k + w[2] \div 2^(28 - k), (w[2] % 2^(28 - k)) * 2^k>>

WideLess(v, w) == v[1] < w[1] \/ (v[1] = w[1] /\ v[2] < w[2])

WideAdd(v, w) ==
    <<v[1] + w[1] + (v[2] + w[2]) \div Limb, (v[2] + w[2]) % Limb>>

(* v - w for v >= w *)
WideSub(v, w) ==
    IF v[2] >= w[2] THEN <<v[1] - w[1], v[2] - w[2]>>
    ELSE <<v[1] - w[1] - 1, v[2] + Limb - w[2]>>

Mantissa(a) == <<a.hi, a.lo>>

(* sign * w * 2^exp for a w of at most 53 bits: the trailing zeros go to   *)
(* the exponent                                                            *)
Normalize(sign, w, exp) ==
    IF w = <<0, 0>> THEN Zero
    ELSE IF w[2] = 0
    THEN Only({[sign |-> sign, exp |-> exp + 28 + z, hi |-> 0, lo |-> w[1] \div 2^z] :
                 z \in {TrailingZeros(w[1])}})
    ELSE Only({[sign |-> sign, exp |-> exp + z,
                hi |-> WideShiftRight(w, z)[1], lo |-> WideShiftRight(w, z)[2]] :
                 z \in {TrailingZeros(w[2])}})

(* round to nearest, ties to even: w has k bits too many; sticky tells     *)
(* that the exact value is a little more than w                            *)
RoundAt(sign, w, exp, sticky, k) ==
    Only({Normalize(sign,
                    IF rem > 2^(k - 1) \/ (rem = 2^(k - 1) /\ (sticky \/ q[2] % 2 = 1))
                    THEN WideAdd(q, <<0, 1>>) ELSE q,
                    exp + k) :
             <<q, rem>> \in {<<WideShiftRight(w, k), w[2] % 2^k>>}})

Round(sign, w, exp, sticky) ==
    Only({IF len <= 53 THEN Normalize(sign, w, exp)
          ELSE RoundAt(sign, w, exp, sticky, len - 53) :
             len \in {WideLength(w)}})

(* float(n) for an int n of less than 31 bits *)
Float(n) ==
    Normalize(IF n < 0 THEN -1 ELSE IF n > 0 THEN 1 ELSE 0,
              <<Abs(n) \div Limb, Abs(n) % Limb>>, 0)

FloatNeg(a) == [a EXCEPT !.sign = -a.sign]

FloatAbs(a) == [a EXCEPT !.sign = Abs(a.sign)]

(* exponent of the bit above the leading bit *)
Top(a) == a.exp + WideLength(Mantissa(a))

(* -1, 0, 1 as |a| is less than, equal to or greater than |b| *)
CompareMagnitude(a, b) ==
    IF a.sign = 0 \/ b.sign = 0
    THEN (IF a.sign # 0 THEN 1 ELSE IF b.sign # 0 THEN -1 ELSE 0)
    ELSE Only({IF ta # tb THEN (IF ta < tb THEN -1 ELSE 1)
               ELSE Only({IF WideLess(v, w) THEN -1 ELSE IF WideLess(w, v) THEN 1 ELSE 0 :
                            <<v, w>> \in {<<WideShiftLeft(Mantissa(a), a.exp - Min(a.exp, b.exp)),
                                            WideShiftLeft(Mantissa(b), b.exp - Min(a.exp, b.exp))>>}}) :
                  <<ta, tb>> \in {<<Top(a), Top(b)>>}})

(* -1, 0, 1 as a < b, a = b, a > b *)
FloatCompare(a, b) ==
    IF a.sign # b.sign THEN (IF a.sign < b.sign THEN -1 ELSE 1)
    ELSE a.sign * CompareMagnitude(a, b)

FloatLess(a, b) == FloatCompare(a, b) < 0

(* |big| + |small| or |big| - |small| for |big| >= |small| > 0: big is put *)
(* on 56 bits, small on the same exponent, the bits it loses kept as one   *)
FloatAddMagnitude(sign, big, small, subtract) ==
    Only({Only({Round(sign, IF subtract THEN WideSub(v, w) ELSE WideAdd(v, w), exp, FALSE) :
                  w \in {IF small.exp >= exp
                         THEN WideShiftLeft(Mantissa(small), small.exp - exp)
                         ELSE IF WideLostBits(Mantissa(small), exp - small.exp)
                              THEN <<WideShiftRight(Mantissa(small), exp - small.exp)[1],
                                     WideShiftRight(Mantissa(small), exp - small.exp)[2]
                                     + (IF WideShiftRight(Mantissa(small), exp - small.exp)[2] % 2 = 0
                                        THEN 1 ELSE 0)>>
                              ELSE WideShiftRight(Mantissa(small), exp - small.exp)}}) :
             <<v, exp>> \in {<<WideShiftLeft(Mantissa(big), 56 - WideLength(Mantissa(big))),
                               big.exp - (56 - WideLength(Mantissa(big)))>>}})

FloatAdd(a, b) ==
    Only({IF x.sign = 0 THEN y
          ELSE IF y.sign = 0 THEN x
          ELSE Only({IF c = 0 /\ x.sign # y.sign THEN Zero
                     ELSE IF c >= 0 THEN FloatAddMagnitude(x.sign, x, y, x.sign # y.sign)
                     ELSE FloatAddMagnitude(y.sign, y, x, x.sign # y.sign) :
                        c \in {CompareMagnitude(x, y)}}) :
             x \in {a}, y \in {b}})

FloatSub(a, b) == FloatAdd(a, FloatNeg(b))

(* Long division, one bit of the quotient at a step.  The state is         *)
(* <<remainder, quotient, divisor>>.                                       *)
DivideStep(st) ==
    Only({IF WideLess(r, st[3])
          THEN <<r, WideShiftLeft(st[2], 1), st[3]>>
          ELSE <<WideSub(r, st[3]), WideAdd(WideShiftLeft(st[2], 1), <<0, 1>>), st[3]>> :
             r \in {WideShiftLeft(st[1], 1)}})

RECURSIVE DivideSteps(_, _)
DivideSteps(st, n) ==
    IF n = 0 THEN st
    ELSE IF st[1] = <<0, 0>> THEN <<st[1], WideShiftLeft(st[2], n), st[3]>>
    ELSE IF n = 1 THEN DivideStep(st)
    ELSE Only({DivideSteps(half, n - n \div 2) : half \in {DivideSteps(st, n \div 2)}})

(* The same division by a divisor d of less than 14 bits, 14 bits of the    *)
(* dividend at a step: first its digits, then zeros until the quotient q   *)
(* has 55 bits or the remainder r is 0; bits counts the zeros appended.    *)
RECURSIVE ShortDivide(_, _, _, _, _)
ShortDivide(q, r, d, digits, bits) ==
    IF digits # <<>>
    THEN Only({ShortDivide(WideAdd(WideShiftLeft(q, 14), <<0, t \div d>>), t % d, d,
                           Tail(digits), bits) :
                 t \in {r * Digit + Head(digits)}})
    ELSE IF r = 0 \/ WideLength(q) >= 55 THEN <<q, r, bits>>
    ELSE Only({ShortDivide(WideAdd(WideShiftLeft(q, c), <<0, (r * 2^c) \div d>>),
                           (r * 2^c) % d, d, digits, bits + c) :
                 c \in {Min(14, 56 - WideLength(q))}})

(* a / b for b # 0: both mantissas on 53 bits, then floor(A * 2^55 / B)    *)
FloatDivide(a, b) ==
    IF a.sign = 0 THEN Zero
    ELSE IF b.hi = 0 /\ b.lo = 1
    THEN [a EXCEPT !.sign = a.sign * b.sign, !.exp = a.exp - b.exp]
    ELSE IF b.hi = 0 /\ b.lo < Digit
    THEN Only({Round(a.sign * b.sign, st[1], a.exp - b.exp - st[3], st[2] # 0) :
                 st \in {ShortDivide(<<0, 0>>, 0, b.lo,
                                     <<a.hi \div Digit, a.hi % Digit,
                                       a.lo \div Digit, a.lo % Digit>>, 0)}})
    ELSE Only({
        Only({Round(a.sign * b.sign, st[2], a.exp - b.exp + la - lb - 55, st[1] # <<0, 0>>) :
                st \in {DivideSteps(
                          IF WideLess(v, w) THEN <<v, <<0, 0>>, w>>
                          ELSE <<WideSub(v, w), <<0, 1>>, w>>, 55)}}) :
           <<v, w, la, lb>> \in
               {<<WideShiftLeft(Mantissa(a), 53 - WideLength(Mantissa(a))),
                  WideShiftLeft(Mantissa(b), 53 - WideLength(Mantissa(b))),
                  WideLength(Mantissa(a)), WideLength(Mantissa(b))>>}})

(* Square root, one bit of the root at a step, two bits of the radicand    *)
(* w: the state is <<remainder, root>> and the two bits are those of w at  *)
(* position 2 * k (0 when k < 0).                                          *)
BitPair(w, k) ==
    IF k < 0 THEN 0
    ELSE IF k >= 14 THEN (w[1] \div 2^(2 * k - 28)) % 4
    ELSE (w[2] \div 2^(2 * k)) % 4

RootStep(st, pair) ==
    Only({IF WideLess(r, t) THEN <<r, WideShiftLeft(st[2], 1)>>
          ELSE <<WideSub(r, t), WideAdd(WideShiftLeft(st[2], 1), <<0, 1>>)>> :
             <<r, t>> \in {<<WideAdd(WideShiftLeft(st[1], 2), <<0, pair>>),
                             WideAdd(WideShiftLeft(st[2], 2), <<0, 1>>)>>}})

(* n steps on the bit pairs k, k - 1, ... of w *)
RECURSIVE RootSteps(_, _, _, _)
RootSteps(st, w, k, n) ==
    IF n = 0 THEN st
    ELSE IF st[1] = <<0, 0>> /\ k < 0 THEN <<st[1], WideShiftLeft(st[2], n)>>
    ELSE IF n = 1 THEN RootStep(st, BitPair(w, k))
    ELSE Only({RootSteps(half, w, k - n \div 2, n - n \div 2) :
                 half \in {RootSteps(st, w, k, n \div 2)}})

(* sqrt(a) for a >= 0: the exponent is made even, the root of the          *)
(* mantissa is taken to 55 bits                                            *)
FloatSqrt(a) ==
    IF a.sign = 0 THEN Zero
    ELSE Only({
        Only({Round(1, st[2], exp \div 2 - (55 - pairs), st[1] # <<0, 0>>) :
                st \in {RootSteps(<<<<0, 0>>, <<0, 0>>>>, w, pairs - 1, 55)}}) :
           <<w, exp, pairs>> \in
               {<<IF a.exp % 2 = 0 THEN Mantissa(a) ELSE WideShiftLeft(Mantissa(a), 1),
                  IF a.exp % 2 = 0 THEN a.exp ELSE a.exp - 1,
                  (WideLength(IF a.exp % 2 = 0 THEN Mantissa(a)
                              ELSE WideShiftLeft(Mantissa(a), 1)) + 1) \div 2>>}})

(* Product: the mantissas in four digits of 14 bits, the product in eight, *)
(* kept as four limbs; Column is the sum of the digit products of a        *)
(* position.                                                               *)
Digits(w) == <<w[2] % Digit, w[2] \div Digit, w[1] % Digit, w[1] \div Digit>>

Column(x, y, k) ==
    LET I == {i \in 1..4 : k + 2 - i \in 1..4}
        t(i) == x[i] * y[k + 2 - i]
    IN  (IF 1 \in I THEN t(1) ELSE 0) + (IF 2 \in I THEN t(2) ELSE 0)
        + (IF 3 \in I THEN t(3) ELSE 0) + (IF 4 \in I THEN t(4) ELSE 0)

(* the digits of the product from position k on, with the carry *)
RECURSIVE ProductDigits(_, _, _, _)
ProductDigits(x, y, k, carry) ==
    IF k > 7 THEN <<>>
    ELSE Only({<<c % Digit>> \o ProductDigits(x, y, k + 1, c \div Digit) :
                 c \in {Column(x, y, k) + carry}})

(* the four limbs <<w3, w2, w1, w0>> of the product *)
Product(v, w) ==
    Only({<<d[8] * Digit + d[7], d[6] * Digit + d[5], d[4] * Digit + d[3], d[2] * Digit + d[1]>> :
             d \in {ProductDigits(Digits(v), Digits(w), 0, 0)}})

(* the three-limb number <<w2, w1, w0>>, w2 # 0, shifted right by the      *)
(* length of w2 to two limbs                                               *)
NarrowShift(w2, w1, w0, k) ==
    IF k = 28 THEN <<w2, w1>>
    ELSE <<w2 * 2^(28 - k) + w1 \div 2^k, (w1 % 2^k) * 2^(28 - k) + w0 \div 2^k>>

FloatMultiply(a, b) ==
    IF a.sign = 0 \/ b.sign = 0 THEN Zero
    ELSE Only({
        IF p[1] # 0
        THEN Round(a.sign * b.sign, NarrowShift(p[1], p[2], p[3], BitLength(p[1])),
                   a.exp + b.exp + 28 + BitLength(p[1]),
                   p[4] # 0 \/ p[3] % 2^BitLength(p[1]) # 0)
        ELSE IF p[2] # 0
        THEN Round(a.sign * b.sign, NarrowShift(p[2], p[3], p[4], BitLength(p[2])),
                   a.exp + b.exp + BitLength(p[2]),
                   p[4] % 2^BitLength(p[2]) # 0)
        ELSE Round(a.sign * b.sign, <<p[3], p[4]>>, a.exp + b.exp, FALSE) :
           p \in {Product(Mantissa(a), Mantissa(b))}})

(* The comparisons of a float with an int n (a threshold of the source) *)
FloatGT(a, n) == FloatCompare(a, Float(n)) > 0

FloatLE(a, n) == FloatCompare(a, Float(n)) <= 0

FloatLT(a, n) == FloatCompare(a, Float(n)) < 0

FloatGE(a, n) == FloatCompare(a, Float(n)) >= 0

(* -1, 0, 1 as a is negative, zero, positive *)
Sign(a) == a.sign

(* a / n for an int n *)
FloatDivInt(a, n) == FloatDivide(a, Float(n))

(* The float nearest to n / d: the literal 0.02 is Rat(2, 100), the       *)
(* quotient frame / fps of two ints is Rat(frame, fps).                    *)
Rat(n, d) == FloatDivide(Float(n), Float(d))

(* a is the int n to within 2^-20: n itself when the arithmetic is exact,  *)
(* a float next to it when a difference, a quotient or a sum was rounded   *)
Near(a, n) == FloatLess(FloatAbs(FloatSub(a, Float(n))), Rat(1, 2^20))

(* np.sqrt of an int *)
Sqrt(n) == FloatSqrt(Float(n))

RECURSIVE GCD(_, _)
GCD(a, b) == Only({IF y = 0 THEN x ELSE GCD(y, x % y) : x \in {a}, y \in {b}})

RECURSIVE SumSeq(_)
SumSeq(s) == IF s = <<>> THEN 0 ELSE s[1] + SumSeq(Tail(s))

(* acc + s[i] + s[i + stride] + ..., added from left to right *)
RECURSIVE FloatSumFrom(_, _, _, _)
FloatSumFrom(s, i, stride, acc) ==
    IF i > Len(s) THEN acc
    ELSE Only({FloatSumFrom(s, i + stride, stride, t) : t \in {FloatAdd(acc, s[i])}})

(* The builtin sum() and a loop of +=: the numbers added from left to     *)
(* right, from 0.                                                          *)
FloatSumSeq(s) == FloatSumFrom(s, 1, 1, Zero)

(* np.add.reduce of a float64 array of at most 128 numbers (pairwise      *)
(* summation): fewer than 8 are added from left to right; otherwise eight  *)
(* sums r[1..8] run over the blocks of 8, r[j] = s[j] + s[8 + j] + ...,    *)
(* they are added as ((r1 + r2) + (r3 + r4)) + ((r5 + r6) + (r7 + r8)),    *)
(* and the numbers after the last whole block are added to that one by one *)
PairwiseSum(s) ==
    IF Len(s) < 8 THEN FloatSumSeq(s)
    ELSE Only({
        FloatSumFrom(s, Len(head) + 1, 1,
            Only({FloatAdd(FloatAdd(FloatAdd(r[1], r[2]), FloatAdd(r[3], r[4])),
                           FloatAdd(FloatAdd(r[5], r[6]), FloatAdd(r[7], r[8]))) :
                    r \in {[j \in 1..8 |-> FloatSumFrom(head, j, 8, Zero)]}})) :
           head \in {SubSeq(s, 1, 8 * (Len(s) \div 8))}})

(* np.mean of a non-empty list of numbers *)
FloatMean(s) == FloatDivInt(PairwiseSum(s), Len(s))

None == [none |-> TRUE]

----------------------------------------------------------------------------
(* Position sequences.  A position is {frameNumber, x, y, timestamp}; a    *)
(* sequence is enumerated as a first sample followed by steps              *)
(* (dx, dy, dt, df): the change of x, y, timestamp and frameNumber.        *)

Step(dx, dy, dt, df) == [dx |-> dx, dy |-> dy, dt |-> dt, df |-> df]

FirstPosition == [frameNumber |-> 0, x |-> 0, y |-> 0, timestamp |-> Float(0)]

RECURSIVE PositionsFrom(_, _)
PositionsFrom(first, steps) ==
    IF steps = <<>> THEN <<first>>
    ELSE LET s == steps[1]
             next == [frameNumber |-> first.frameNumber + s.df,
                      x |-> first.x + s.dx,
                      y |-> first.y + s.dy,
                      timestamp |-> FloatAdd(first.timestamp, s.dt)]
         IN  <<first>> \o PositionsFrom(next, Tail(steps))

StepSeqs(S, n) == UNION {[1..k -> S] : k \in 0..n}

(* Times in 64ths of a second, which binary floating point adds and       *)
(* subtracts without error, and in hundredths, which it rounds.            *)
Dyadic(n) == Rat(n, 64)

Centi(n) == Rat(n, 100)

(* Steps around every threshold of the engine: distances 1, sqrt(2), 2,   *)
(* sqrt(5), 3 (the 2px correction limit), 5 and 6 (the 5px tracking        *)
(* limit), 125px at exactly 2000 px/s, flicks of 32, 100 and 300 px, a     *)
(* duplicate timestamp (dt = 0), an out-of-order one (dt < 0) and a        *)
(* skipped frame (df = 2).                                                 *)
GeneralSteps ==
    { Step(1, 0, Dyadic(1), 1), Step(2, 0, Dyadic(1), 1), Step(0, 3, Dyadic(1), 2),
      Step(1, 1, Dyadic(1), 1), Step(2, 1, Dyadic(1), 1),
      Step(3, 4, Dyadic(1), 1), Step(0, 6, Dyadic(1), 1),
      Step(125, 0, Dyadic(4), 1),
      Step(-32, 0, Dyadic(1), 1), Step(60, 80, Dyadic(1), 1),
      Step(300, 0, Dyadic(1), 1),
      Step(1, 0, Dyadic(0), 1), Step(100, 0, Dyadic(-1), 1) }

(* Steps of 6px at 384 px/s and of 125px at exactly 500 px/s: the second   *)
(* is a tracking movement at the default threshold and ends a run at 384.  *)
TrackSteps == { Step(6, 0, Dyadic(1), 1), Step(125, 0, Dyadic(16), 2) }

(* Fast steps (100px in 1/64 s, 6400 px/s) in five directions, a step of  *)
(* no displacement, a step at exactly 1500 px/s and a slow step: the       *)
(* reversal detector of the TDM driver.                                    *)
DirectionSteps ==
    { Step(100, 0, Dyadic(1), 1), Step(-100, 0, Dyadic(1), 1), Step(0, 100, Dyadic(1), 1),
      Step(-80, 60, Dyadic(1), 1), Step(-80, -60, Dyadic(1), 1),
      Step(0, 0, Dyadic(1), 1),
      Step(375, 0, Dyadic(16), 1), Step(-25, 0, Dyadic(4), 1) }

DirectionInputs ==
    {PositionsFrom(FirstPosition, s) : s \in StepSeqs(DirectionSteps, MaxLen - 1)}

(* Sequences long enough for the default look-ahead of 10 frames: two      *)
(* leading steps (a quiet step, a small, a medium or a large flick)        *)
(* followed by a tail that is quiet (1px steps), that starts with two 3px  *)
(* corrections, that ends with a flick, that tracks, or that drifts along  *)
(* a diagonal in steps of sqrt(5) px.                                      *)
HeadSteps ==
    { Step(1, 0, Dyadic(1), 1), Step(-32, 0, Dyadic(1), 1),
      Step(60, 80, Dyadic(1), 1), Step(300, 0, Dyadic(1), 1) }

TailQuiet(n) == [k \in 1..n |-> Step(1, 0, Dyadic(1), 1)]

TailCorrecting(n) ==
    [k \in 1..n |-> IF k <= 2 THEN Step(0, 3, Dyadic(1), 1) ELSE Step(1, 0, Dyadic(1), 1)]

TailLateFlick(n) ==
    [k \in 1..n |-> IF k = n THEN Step(60, 80, Dyadic(1), 1) ELSE Step(1, 0, Dyadic(1), 1)]

(* steady 6px steps at 384 px/s: a tracking segment *)
TailTracking(n) == [k \in 1..n |-> Step(6, 0, Dyadic(1), 1)]

(* steps (2, 1): each of length sqrt(5), over the 2px correction limit *)
TailDiagonal(n) == [k \in 1..n |-> Step(2, 1, Dyadic(1), 1)]

Tails(n) ==
    {TailQuiet(n), TailCorrecting(n), TailLateFlick(n), TailTracking(n), TailDiagonal(n)}

AnalysisInputs ==
    {PositionsFrom(FirstPosition, <<h1, h2>> \o tail) :
        h1 \in HeadSteps, h2 \in HeadSteps, tail \in Tails(AnalysisLen - 3)}

GeneralInputs == {PositionsFrom(FirstPosition, s) : s \in StepSeqs(GeneralSteps, MaxLen - 1)}

TrackInputs == {PositionsFrom(FirstPosition, s) : s \in StepSeqs(TrackSteps, MaxTrackLen - 1)}

(* 10 positions moving steadily d px apart along x every 0.02s *)
SteadyPositions(d) ==
    [k \in 1..10 |-> [frameNumber |-> k - 1, x |-> d * (k - 1), y |-> 0,
                      timestamp |-> Centi(2 * (k - 1))]]

(* (0,0,t=0.0) (10,0,t=0.01) (10,0,t=0.02) (110,0,t=0.03) (110,0,t=0.04) (110,0,t=1.0) *)
SixPositions ==
    << [frameNumber |-> 0, x |-> 0, y |-> 0, timestamp |-> Centi(0)],
       [frameNumber |-> 1, x |-> 10, y |-> 0, timestamp |-> Centi(1)],
       [frameNumber |-> 2, x |-> 10, y |-> 0, timestamp |-> Centi(2)],
       [frameNumber |-> 3, x |-> 110, y |-> 0, timestamp |-> Centi(3)],
       [frameNumber |-> 4, x |-> 110, y |-> 0, timestamp |-> Centi(4)],
       [frameNumber |-> 5, x |-> 110, y |-> 0, timestamp |-> Centi(100)] >>

ScenarioInputs == {SteadyPositions(5), SteadyPositions(6), SixPositions}

(* The positions the tracker appends for the samples <<frameNumber, x, y>> *)
(* of a video at fps frames per second: timestamp = frameNumber / fps.     *)
SampledPositions(fps, samples) ==
    [k \in 1..Len(samples) |->
        [frameNumber |-> samples[k][1], x |-> samples[k][2], y |-> samples[k][3],
         timestamp |-> Rat(samples[k][1], fps)]]

(* Sequences on which the rounding of the floating-point arithmetic        *)
(* decides: every third frame of a 60 fps video at 100px a sample (2000    *)
(* px/s; the last quotient is 2000.0000000000005) and at 25px a sample     *)
(* (500 px/s; the last is 500.00000000000006); 50px in a frame at 30 fps   *)
(* (1500.0000000000002 px/s) and back; 20px in a frame at 50 fps           *)
(* (999.9999999999998 px/s); a quarter turn from (7, 24) to (-24, 7) at    *)
(* 1600 px/s; velocity changes whose standard deviation is 999.945...;     *)
(* velocities whose mean is 1000.896...; and a flick followed by a         *)
(* tracking run whose distances add up to one unit in the last place more  *)
(* than the distances of all movements.                                    *)
RoundingInputs ==
    { SampledPositions(60, <<<<0, 0, 0>>, <<3, 100, 0>>, <<6, 200, 0>>, <<9, 300, 0>>>>),
      SampledPositions(60, <<<<0, 0, 0>>, <<3, 25, 0>>, <<6, 50, 0>>, <<9, 75, 0>>>>),
      SampledPositions(30, <<<<3, 960, 540>>, <<4, 1010, 540>>, <<5, 960, 540>>>>),
      SampledPositions(50, <<<<3, 960, 540>>, <<4, 980, 540>>>>),
      SampledPositions(64, <<<<0, 0, 0>>, <<1, 7, 24>>, <<2, -17, 31>>>>),
      SampledPositions(64, <<<<0, 0, 0>>, <<1, 17, 17>>, <<2, 57, 17>>, <<3, 135, 56>>>>),
      SampledPositions(64, <<<<0, 0, 0>>, <<1, 11, 11>>, <<2, 31, 21>>, <<3, 40, 21>>>>),
      SampledPositions(64, <<<<0, 0, 0>>, <<1, 32, 1>>, <<2, 37, 6>>, <<3, 40, 11>>,
                            <<4, 47, 13>>>>) }

Inputs ==
    {<<>>} \cup GeneralInputs \cup TrackInputs \cup ScenarioInputs \cup DirectionInputs
        \cup AnalysisInputs \cup RoundingInputs

(* the thresholds the test of detectFlicks goes through *)
TestThresholds == {100, 200, 300, 500, 750, 1000, 2000}

(* values of the parameter velocityThreshold of the flick detectors: those *)
(* of the test (the default and the default tracking threshold among       *)
(* them), the velocity of a 3px step in 1/64 s, and that of 5px in 0.02 s  *)
FlickThresholds == TestThresholds \cup {192, 250}

TrackingThresholds == {384, DefaultTrackingThreshold}

LookAheads == 0..MaxLookAhead

----------------------------------------------------------------------------
(* CrosshairMetrics *)

(* np.degrees(np.arctan2(dy, dx)), kept as the shortest integer vector of  *)
(* that angle; arctan2(0, 0) is 0, the angle of (1, 0).                    *)
Direction(dx, dy) ==
    LET g == GCD(Abs(dx), Abs(dy))
    IN  IF g = 0 THEN [dx |-> 1, dy |-> 0] ELSE [dx |-> dx \div g, dy |-> dy \div g]

(* variant: the guard is "timeDiff != 0", so an out-of-order timestamp     *)
(* gives a negative velocity                                               *)
MovementNonZeroGuard(prev, curr) ==
    LET dx == curr.x - prev.x
        dy == curr.y - prev.y
        distance == Sqrt(dx * dx + dy * dy)
        timeDiff == FloatSub(curr.timestamp, prev.timestamp)
        velocity == IF Sign(timeDiff) # 0 THEN FloatDivide(distance, timeDiff)
                    ELSE Float(0)
    IN  [frameStart |-> prev.frameNumber,
         frameEnd |-> curr.frameNumber,
         distance |-> distance,
         velocity |-> velocity,
         direction |-> Direction(dx, dy),
         dx |-> dx,
         dy |-> dy,
         timeDiff |-> timeDiff]

(* variant: the velocity is per frame, not per second *)
MovementPerFrame(prev, curr) ==
    LET dx == curr.x - prev.x
        dy == curr.y - prev.y
        distance == Sqrt(dx * dx + dy * dy)
        timeDiff == FloatSub(curr.timestamp, prev.timestamp)
        velocity == IF Sign(timeDiff) > 0
                    THEN FloatDivInt(distance, Max(1, curr.frameNumber - prev.frameNumber))
                    ELSE Float(0)
    IN  [frameStart |-> prev.frameNumber,
         frameEnd |-> curr.frameNumber,
         distance |-> distance,
         velocity |-> velocity,
         direction |-> Direction(dx, dy),
         dx |-> dx,
         dy |-> dy,
         timeDiff |-> timeDiff]

Movement(prev, curr) ==
    LET dx == curr.x - prev.x
        dy == curr.y - prev.y
        distance == Sqrt(dx * dx + dy * dy)
        timeDiff == FloatSub(curr.timestamp, prev.timestamp)
        velocity == IF Sign(timeDiff) > 0 THEN FloatDivide(distance, timeDiff)
                    ELSE Float(0)
    IN  [frameStart |-> prev.frameNumber,
         frameEnd |-> curr.frameNumber,
         distance |-> distance,
         velocity |-> velocity,
         direction |-> Direction(dx, dy),
         dx |-> dx,
         dy |-> dy,
         timeDiff |-> timeDiff]

(* for i in range(1, len(positions)): movements.append(...) *)
RECURSIVE calculateMovementsFrom(_, _)
calculateMovementsFrom(pos, i) ==
    IF i >= Len(pos) THEN <<>>
    ELSE <<Movement(pos[i], pos[i + 1])>> \o calculateMovementsFrom(pos, i + 1)

(* variant: the loop starts at range(2, ...) and loses the first pair *)
calculateMovementsSkipFirst(pos) == calculateMovementsFrom(pos, 2)

calculateMovements(pos) == calculateMovementsFrom(pos, 1)

(* the record detectFlicks appends *)
Flick(m) ==
    [frameStart |-> m.frameStart, frameEnd |-> m.frameEnd,
     distance |-> m.distance, velocity |-> m.velocity, direction |-> m.direction]

(* the record detectFlicksByDistance appends: no direction *)
FlickData(m) ==
    [frameStart |-> m.frameStart, frameEnd |-> m.frameEnd,
     distance |-> m.distance, velocity |-> m.velocity]

(* variant: "velocity >= velocityThreshold" *)
IsFlickInclusive(m, velocityThreshold) == FloatGE(m.velocity, velocityThreshold)

IsFlick(m, velocityThreshold) == FloatGT(m.velocity, velocityThreshold)

RECURSIVE detectFlicks(_, _)
detectFlicks(ms, velocityThreshold) ==
    IF ms = <<>> THEN <<>>
    ELSE (IF IsFlick(ms[1], velocityThreshold) THEN <<Flick(ms[1])>> ELSE <<>>)
         \o detectFlicks(Tail(ms), velocityThreshold)

(* One pass over the movements; a flick is appended to the list of the     *)
(* first branch of "if distance < 100 / elif distance < 300 / else" taken. *)
(* variant: "elif 100 < distance < 300", which loses a flick of exactly 100px *)
AppendFlickGap(flicks, m) ==
    IF FloatLT(m.distance, SmallFlickLimit)
    THEN [flicks EXCEPT !.small = Append(@, FlickData(m))]
    ELSE IF FloatGT(m.distance, SmallFlickLimit) /\ FloatLT(m.distance, MediumFlickLimit)
    THEN [flicks EXCEPT !.medium = Append(@, FlickData(m))]
    ELSE IF FloatGE(m.distance, MediumFlickLimit)
    THEN [flicks EXCEPT !.large = Append(@, FlickData(m))]
    ELSE flicks

(* variant: "distance <= 100" and "distance <= 300" *)
AppendFlickInclusive(flicks, m) ==
    IF FloatLE(m.distance, SmallFlickLimit)
    THEN [flicks EXCEPT !.small = Append(@, FlickData(m))]
    ELSE IF FloatLE(m.distance, MediumFlickLimit)
    THEN [flicks EXCEPT !.medium = Append(@, FlickData(m))]
    ELSE [flicks EXCEPT !.large = Append(@, FlickData(m))]

AppendFlick(flicks, m) ==
    IF FloatLT(m.distance, SmallFlickLimit)
    THEN [flicks EXCEPT !.small = Append(@, FlickData(m))]
    ELSE IF FloatLT(m.distance, MediumFlickLimit)
    THEN [flicks EXCEPT !.medium = Append(@, FlickData(m))]
    ELSE [flicks EXCEPT !.large = Append(@, FlickData(m))]

RECURSIVE detectFlicksByDistanceFrom(_, _, _, _)
detectFlicksByDistanceFrom(ms, i, velocityThreshold, flicks) ==
    IF i > Len(ms) THEN flicks
    ELSE detectFlicksByDistanceFrom(ms, i + 1, velocityThreshold,
            IF IsFlick(ms[i], velocityThreshold) THEN AppendFlick(flicks, ms[i])
            ELSE flicks)

detectFlicksByDistance(ms, velocityThreshold) ==
    detectFlicksByDistanceFrom(ms, 1, velocityThreshold,
        [small |-> <<>>, medium |-> <<>>, large |-> <<>>])

(* analyzeFlickCorrections: index of the first position whose frameNumber  *)
(* is flickFrame, 0 when there is none (flickIndex is None).  Indices are  *)
(* 1-based here, 0-based in the source.                                    *)
RECURSIVE FlickIndexFrom(_, _, _)
FlickIndexFrom(pos, flickFrame, i) ==
    IF i > Len(pos) THEN 0
    ELSE IF pos[i].frameNumber = flickFrame THEN i
    ELSE FlickIndexFrom(pos, flickFrame, i + 1)

FlickIndex(pos, flickFrame) == FlickIndexFrom(pos, flickFrame, 1)

StepDistance(prev, curr) ==
    LET dx == curr.x - prev.x
        dy == curr.y - prev.y
    IN  Sqrt(dx * dx + dy * dy)

(* variant: "distance >= 2" *)
RECURSIVE CorrectionsFromInclusive(_, _, _)
CorrectionsFromInclusive(post, i, acc) ==
    IF i > Len(post) THEN acc
    ELSE LET distance == StepDistance(post[i - 1], post[i])
         IN  CorrectionsFromInclusive(post, i + 1,
                IF FloatGE(distance, CorrectionPixels)
                THEN [correctionDistance |-> FloatAdd(acc.correctionDistance, distance),
                      correctionCount |-> acc.correctionCount + 1]
                ELSE acc)

(* first loop over postFlickPositions: corrections are steps of more than 2px *)
RECURSIVE CorrectionsFrom(_, _, _)
CorrectionsFrom(post, i, acc) ==
    IF i > Len(post) THEN acc
    ELSE LET distance == StepDistance(post[i - 1], post[i])
         IN  CorrectionsFrom(post, i + 1,
                IF FloatGT(distance, CorrectionPixels)
                THEN [correctionDistance |-> FloatAdd(acc.correctionDistance, distance),
                      correctionCount |-> acc.correctionCount + 1]
                ELSE acc)

(* second loop: stabilizationTime is set at the first step under 2px and   *)
(* stays None (here: the record None) when there is no such step.          *)
RECURSIVE StabilizationFrom(_, _, _)
StabilizationFrom(post, i, stabilizationTime) ==
    IF i > Len(post) THEN stabilizationTime
    ELSE LET distance == StepDistance(post[i - 1], post[i])
         IN  StabilizationFrom(post, i + 1,
                IF FloatLT(distance, CorrectionPixels) /\ stabilizationTime = None
                THEN [time |-> FloatSub(post[i].timestamp, post[1].timestamp)]
                ELSE stabilizationTime)

(* "stabilizationTime if stabilizationTime else ...": None and 0 are both  *)
(* false in Python.                                                        *)
Truthy(stabilizationTime) ==
    stabilizationTime # None /\ Sign(stabilizationTime.time) # 0

(* variant: the bound check is ">" and the slice, as Python slices do,     *)
(* stops at the end of the list                                            *)
analyzeFlickCorrectionsTruncating(pos, flickFrame, lookAheadFrames) ==
    LET flickIndex == FlickIndex(pos, flickFrame)
    IN  IF flickIndex = 0 \/ (flickIndex - 1) + lookAheadFrames > Len(pos)
        THEN None
        ELSE LET last == IF flickIndex + lookAheadFrames <= Len(pos)
                         THEN flickIndex + lookAheadFrames ELSE Len(pos)
                 postFlickPositions == SubSeq(pos, flickIndex, last)
                 corr == CorrectionsFrom(postFlickPositions, 2,
                            [correctionDistance |-> Float(0), correctionCount |-> 0])
                 stabilizationTime == StabilizationFrom(postFlickPositions, 2, None)
             IN  [correctionDistance |-> corr.correctionDistance,
                  correctionCount |-> corr.correctionCount,
                  stabilizationTime |->
                      IF Truthy(stabilizationTime) THEN stabilizationTime.time
                      ELSE FloatSub(postFlickPositions[Len(postFlickPositions)].timestamp,
                                  postFlickPositions[1].timestamp)]

(* variant: the correction loop is range(2, ...) and misses the first step *)
analyzeFlickCorrectionsSkipStep(pos, flickFrame, lookAheadFrames) ==
    LET flickIndex == FlickIndex(pos, flickFrame)
    IN  IF flickIndex = 0 \/ (flickIndex - 1) + lookAheadFrames >= Len(pos)
        THEN None
        ELSE LET postFlickPositions == SubSeq(pos, flickIndex, flickIndex + lookAheadFrames)
                 corr == CorrectionsFrom(postFlickPositions, 3,
                            [correctionDistance |-> Float(0), correctionCount |-> 0])
                 stabilizationTime == StabilizationFrom(postFlickPositions, 2, None)
             IN  [correctionDistance |-> corr.correctionDistance,
                  correctionCount |-> corr.correctionCount,
                  stabilizationTime |->
                      IF Truthy(stabilizationTime) THEN stabilizationTime.time
                      ELSE FloatSub(postFlickPositions[Len(postFlickPositions)].timestamp,
                                  postFlickPositions[1].timestamp)]

analyzeFlickCorrections(pos, flickFrame, lookAheadFrames) ==
    LET flickIndex == FlickIndex(pos, flickFrame)
    IN  IF flickIndex = 0 \/ (flickIndex - 1) + lookAheadFrames >= Len(pos)
        THEN None
        ELSE LET postFlickPositions == SubSeq(pos, flickIndex, flickIndex + lookAheadFrames)
                 corr == CorrectionsFrom(postFlickPositions, 2,
                            [correctionDistance |-> Float(0), correctionCount |-> 0])
                 stabilizationTime == StabilizationFrom(postFlickPositions, 2, None)
             IN  [correctionDistance |-> corr.correctionDistance,
                  correctionCount |-> corr.correctionCount,
                  stabilizationTime |->
                      IF Truthy(stabilizationTime) THEN stabilizationTime.time
                      ELSE FloatSub(postFlickPositions[Len(postFlickPositions)].timestamp,
                                  postFlickPositions[1].timestamp)]

(* getTrackingSegments *)
(* variant: "distance >= 5" *)
IsTrackingInclusive(m, velocityThreshold) ==
    FloatLE(m.velocity, velocityThreshold) /\ FloatGE(m.distance, MinTrackingDistance)

(* variant: no velocity test *)
IsTrackingAnySpeed(m, velocityThreshold) == FloatGT(m.distance, MinTrackingDistance)

IsTracking(m, velocityThreshold) ==
    FloatLE(m.velocity, velocityThreshold) /\ FloatGT(m.distance, MinTrackingDistance)

Segment(ms, currentSegment) ==
    [startFrame |-> ms[currentSegment[1]].frameStart,
     endFrame |-> ms[currentSegment[Len(currentSegment)]].frameEnd,
     duration |-> Len(currentSegment),
     distance |-> FloatSumSeq([k \in 1..Len(currentSegment) |-> ms[currentSegment[k]].distance]),
     avgVelocity |-> FloatMean([k \in 1..Len(currentSegment) |-> ms[currentSegment[k]].velocity])]

(* a closed run is emitted when it has at least 3 members *)
(* variant: a run of 2 is emitted too *)
CloseSegmentShort(ms, trackingSegments, currentSegment) ==
    IF Len(currentSegment) >= MinTrackingRun - 1
    THEN Append(trackingSegments, Segment(ms, currentSegment))
    ELSE trackingSegments

CloseSegment(ms, trackingSegments, currentSegment) ==
    IF Len(currentSegment) >= MinTrackingRun
    THEN Append(trackingSegments, Segment(ms, currentSegment))
    ELSE trackingSegments

(* variant: the run that reaches the end of the list is not flushed *)
RECURSIVE getTrackingSegmentsNoFlush(_, _, _, _, _)
getTrackingSegmentsNoFlush(ms, i, velocityThreshold, trackingSegments, currentSegment) ==
    IF i > Len(ms)
    THEN trackingSegments
    ELSE IF IsTracking(ms[i], velocityThreshold)
    THEN getTrackingSegmentsNoFlush(ms, i + 1, velocityThreshold,
            trackingSegments, Append(currentSegment, i))
    ELSE getTrackingSegmentsNoFlush(ms, i + 1, velocityThreshold,
            CloseSegment(ms, trackingSegments, currentSegment), <<>>)

RECURSIVE getTrackingSegmentsFrom(_, _, _, _, _)
getTrackingSegmentsFrom(ms, i, velocityThreshold, trackingSegments, currentSegment) ==
    IF i > Len(ms)
    THEN CloseSegment(ms, trackingSegments, currentSegment)
    ELSE IF IsTracking(ms[i], velocityThreshold)
    THEN getTrackingSegmentsFrom(ms, i + 1, velocityThreshold,
            trackingSegments, Append(currentSegment, i))
    ELSE getTrackingSegmentsFrom(ms, i + 1, velocityThreshold,
            CloseSegment(ms, trackingSegments, currentSegment), <<>>)

getTrackingSegments(ms, velocityThreshold) ==
    getTrackingSegmentsFrom(ms, 1, velocityThreshold, <<>>, <<>>)

----------------------------------------------------------------------------
(* Statistics, computed as numpy computes them.  NaN is what numpy yields   *)
(* for the mean or the median of an empty list.                            *)

NaN == [nan |-> TRUE]

Raised(exception) == [raised |-> exception]

(* np.max of a non-empty list *)
RECURSIVE FloatMaxFrom(_, _, _)
FloatMaxFrom(s, i, best) ==
    IF i > Len(s) THEN best
    ELSE FloatMaxFrom(s, i + 1, IF FloatLess(best, s[i]) THEN s[i] ELSE best)

FloatMaxSeq(s) == FloatMaxFrom(s, 2, s[1])

(* np.std of a non-empty list: the mean, the deviations from it, their     *)
(* squares, the mean of the squares, its root                              *)
Std(xs) ==
    Only({FloatSqrt(FloatMean([i \in 1..Len(xs) |->
                       Only({FloatMultiply(x, x) : x \in {FloatSub(xs[i], mean)}})])) :
             mean \in {FloatMean(xs)}})

RECURSIVE FloatInsert(_, _)
FloatInsert(s, a) ==
    IF s = <<>> THEN <<a>>
    ELSE IF FloatLess(a, s[1]) THEN <<a>> \o s
    ELSE <<s[1]>> \o FloatInsert(Tail(s), a)

RECURSIVE FloatSort(_)
FloatSort(s) == IF s = <<>> THEN <<>> ELSE FloatInsert(FloatSort(Tail(s)), s[1])

(* np.median: the middle value, or the mean of the two middle values *)
Median(xs) ==
    LET n == Len(xs)
        sorted == FloatSort(xs)
    IN  IF n = 0 THEN NaN
        ELSE IF n % 2 = 1 THEN sorted[(n + 1) \div 2]
        ELSE FloatDivInt(FloatAdd(sorted[n \div 2], sorted[n \div 2 + 1]), 2)

(* floor(a) for a float a >= 0 below 2^28, as an int *)
FloatFloor(a) ==
    IF a.sign = 0 THEN 0
    ELSE IF a.exp >= 0 THEN a.lo * 2^a.exp
    ELSE WideShiftRight(Mantissa(a), -a.exp)[2]

(* numpy's _lerp(a, b, t): a + (b - a) * t, and b - (b - a) * (1 - t)      *)
(* where t >= 0.5                                                          *)
Lerp(a, b, t) ==
    Only({IF FloatCompare(t, Rat(1, 2)) >= 0
          THEN FloatSub(b, FloatMultiply(diff, FloatSub(Float(1), t)))
          ELSE FloatAdd(a, FloatMultiply(diff, t)) :
             diff \in {FloatSub(b, a)}})

(* np.percentile(xs, q) of a non-empty list (method "linear"): the         *)
(* position (n - 1) * (q / 100) among the sorted values, the values at its *)
(* floor and at the next index (the last at most), interpolated at the     *)
(* fraction of the position                                                *)
Percentile(xs, q) ==
    Only({Only({Lerp(sorted[previous + 1], sorted[Min(previous + 1, Len(xs) - 1) + 1],
                     FloatSub(virtual, Float(previous))) :
                  previous \in {FloatFloor(virtual)}}) :
             sorted \in {FloatSort(xs)},
             virtual \in {FloatMultiply(Float(Len(xs) - 1), Rat(q, 100))}})

Velocities(ms) == [i \in 1..Len(ms) |-> ms[i].velocity]

Distances(ms) == [i \in 1..Len(ms) |-> ms[i].distance]

(* np.mean of a list of integers *)
IntMean(s) == FloatMean([k \in 1..Len(s) |-> Float(s[k])])

(* variant: no guard for an instance without movements *)
getAverageVelocityUnguarded(ms) == IF ms = <<>> THEN NaN ELSE FloatMean(Velocities(ms))

getAverageVelocity(ms) == IF ms = <<>> THEN Float(0) ELSE FloatMean(Velocities(ms))

getMaxVelocity(ms) == IF ms = <<>> THEN Float(0) ELSE FloatMaxSeq(Velocities(ms))

getTotalDistance(ms) == IF ms = <<>> THEN Zero ELSE FloatSumSeq(Distances(ms))

(* the standard deviation of the absolute velocity changes *)
getSmoothness(ms) ==
    IF Len(ms) < 2 THEN Float(0)
    ELSE Std([i \in 1..(Len(ms) - 1) |->
                 FloatAbs(FloatSub(ms[i + 1].velocity, ms[i].velocity))])

getFlickStats(ms, velocityThreshold) ==
    LET flicks == detectFlicks(ms, velocityThreshold)
    IN  IF flicks = <<>>
        THEN [count |-> 0, averageDistance |-> Float(0), averageVelocity |-> Float(0),
              maxDistance |-> Zero, maxVelocity |-> Float(0)]
        ELSE [count |-> Len(flicks),
              averageDistance |-> FloatMean(Distances(flicks)),
              averageVelocity |-> FloatMean(Velocities(flicks)),
              maxDistance |-> FloatMaxSeq(Distances(flicks)),
              maxVelocity |-> FloatMaxSeq(Velocities(flicks))]

getSummary(pos, ms) ==
    LET trackingSegments == getTrackingSegments(ms, DefaultTrackingThreshold)
    IN  [totalFrames |-> Len(pos),
         totalDistance |-> getTotalDistance(ms),
         averageVelocity |-> getAverageVelocity(ms),
         maxVelocity |-> getMaxVelocity(ms),
         smoothness |-> getSmoothness(ms),
         flicks |-> getFlickStats(ms, DefaultFlickThreshold),
         trackingSegmentCount |-> Len(trackingSegments),
         totalTrackingDistance |-> FloatSumSeq(Distances(trackingSegments))]

(* getFlickAnalysisByDistance: per tier, the flick averages and the means  *)
(* of the stability records of the flicks whose lookup, by frameEnd with   *)
(* the default look-ahead, is not None.                                    *)
(* variant: a look-ahead of 9 frames *)
RECURSIVE CorrectionRecordsShort(_, _)
CorrectionRecordsShort(pos, flicks) ==
    IF flicks = <<>> THEN <<>>
    ELSE Only({(IF correctionData # None THEN <<correctionData>> ELSE <<>>)
               \o CorrectionRecordsShort(pos, Tail(flicks)) :
                  correctionData \in
                      {analyzeFlickCorrections(pos, flicks[1].frameEnd, DefaultLookAheadFrames - 1)}})

RECURSIVE CorrectionRecords(_, _)
CorrectionRecords(pos, flicks) ==
    IF flicks = <<>> THEN <<>>
    ELSE Only({(IF correctionData # None THEN <<correctionData>> ELSE <<>>)
               \o CorrectionRecords(pos, Tail(flicks)) :
                  correctionData \in
                      {analyzeFlickCorrections(pos, flicks[1].frameEnd, DefaultLookAheadFrames)}})

ZeroTier ==
    [count |-> 0, avgDistance |-> Float(0), avgVelocity |-> Float(0),
     avgCorrectionCount |-> Float(0), avgCorrectionDistance |-> Float(0),
     avgStabilizationTime |-> Float(0)]

(* variant: no zero record for a tier without flicks, np.mean of nothing *)
TierAnalysisUnguarded(pos, flicks) ==
    Only({LET n == Len(corrections)
          IN  [count |-> Len(flicks),
               avgDistance |-> IF flicks = <<>> THEN NaN ELSE FloatMean(Distances(flicks)),
               avgVelocity |-> IF flicks = <<>> THEN NaN ELSE FloatMean(Velocities(flicks)),
               avgCorrectionCount |->
                   IF n > 0 THEN IntMean([k \in 1..n |-> corrections[k].correctionCount])
                   ELSE Float(0),
               avgCorrectionDistance |->
                   IF n > 0 THEN FloatMean([k \in 1..n |-> corrections[k].correctionDistance])
                   ELSE Float(0),
               avgStabilizationTime |->
                   IF n > 0 THEN FloatMean([k \in 1..n |-> corrections[k].stabilizationTime])
                   ELSE Float(0)] :
             corrections \in {CorrectionRecords(pos, flicks)}})

(* variant: a flick without a stability record counts as zero in the means *)
TierAnalysisAbsentAsZero(pos, flicks) ==
    IF flicks = <<>> THEN ZeroTier
    ELSE Only({LET n == Len(corrections)
               IN  [count |-> Len(flicks),
                    avgDistance |-> FloatMean(Distances(flicks)),
                    avgVelocity |-> FloatMean(Velocities(flicks)),
                    avgCorrectionCount |->
                        Rat(SumSeq([k \in 1..n |-> corrections[k].correctionCount]), Len(flicks)),
                    avgCorrectionDistance |->
                        FloatDivInt(FloatSumSeq([k \in 1..n |-> corrections[k].correctionDistance]), Len(flicks)),
                    avgStabilizationTime |->
                        FloatDivInt(FloatSumSeq([k \in 1..n |-> corrections[k].stabilizationTime]),
                                  Len(flicks))] :
                  corrections \in {CorrectionRecords(pos, flicks)}})

TierAnalysis(pos, flicks) ==
    IF flicks = <<>> THEN ZeroTier
    ELSE Only({LET n == Len(corrections)
               IN  [count |-> Len(flicks),
                    avgDistance |-> FloatMean(Distances(flicks)),
                    avgVelocity |-> FloatMean(Velocities(flicks)),
                    avgCorrectionCount |->
                        IF n > 0 THEN IntMean([k \in 1..n |-> corrections[k].correctionCount])
                        ELSE Float(0),
                    avgCorrectionDistance |->
                        IF n > 0 THEN FloatMean([k \in 1..n |-> corrections[k].correctionDistance])
                        ELSE Float(0),
                    avgStabilizationTime |->
                        IF n > 0 THEN FloatMean([k \in 1..n |-> corrections[k].stabilizationTime])
                        ELSE Float(0)] :
                  corrections \in {CorrectionRecords(pos, flicks)}})

getFlickAnalysisByDistance(pos, ms, velocityThreshold) ==
    Only({[small |-> TierAnalysis(pos, flicksByDistance.small),
           medium |-> TierAnalysis(pos, flicksByDistance.medium),
           large |-> TierAnalysis(pos, flicksByDistance.large)] :
             flicksByDistance \in {detectFlicksByDistance(ms, velocityThreshold)}})

----------------------------------------------------------------------------
(* analyzeTdmGameplay (the TDM driver): it smooths the tracked positions   *)
(* with a window of 5, builds an instance from the smoothed positions and  *)
(* runs its own flick detection and tier counts over the movements of that *)
(* instance.  The driver returns None when no position was tracked.        *)

SmoothingWindow == 5

(* int(a / n) for ints a and n: the quotient as a float, truncated toward  *)
(* zero                                                                    *)
TruncDiv(a, n) == Only({q.sign * FloatFloor(FloatAbs(q)) : q \in {Rat(a, n)}})

(* positions[startIdx:endIdx] around index i (1-based), half == windowSize // 2 *)
SmoothWindow(pos, i, half) == Max(1, i - half) .. Min(Len(pos), i + half)

(* variant: the positions are always returned as they are *)
smoothPositionsIdentity(pos, windowSize) == pos

smoothPositions(pos, windowSize) ==
    IF Len(pos) < windowSize THEN pos
    ELSE [i \in 1..Len(pos) |->
            LET window == SmoothWindow(pos, i, windowSize \div 2)
                lo == Max(1, i - windowSize \div 2)
                n == Cardinality(window)
                xs == [k \in 1..n |-> pos[lo + k - 1].x]
                ys == [k \in 1..n |-> pos[lo + k - 1].y]
            IN  [frameNumber |-> pos[i].frameNumber,
                 x |-> TruncDiv(SumSeq(xs), n),
                 y |-> TruncDiv(SumSeq(ys), n),
                 timestamp |-> pos[i].timestamp]]

DriverIsFlick(m) == FloatGT(m.velocity, DefaultFlickThreshold)

DriverSmall(m) == DriverIsFlick(m) /\ FloatLT(m.distance, SmallFlickLimit)

DriverMedium(m) ==
    /\ DriverIsFlick(m)
    /\ FloatGE(m.distance, SmallFlickLimit)
    /\ FloatLT(m.distance, MediumFlickLimit)

DriverLarge(m) == DriverIsFlick(m) /\ FloatGE(m.distance, MediumFlickLimit)

(* a small, slower movement: "10 < distance < 50 and velocity < 1000" *)
MicroMinDistance == 10
MicroMaxDistance == 50
MicroMaxVelocity == 1000

IsMicroAdjustment(m) ==
    /\ FloatGT(m.distance, MicroMinDistance)
    /\ FloatLT(m.distance, MicroMaxDistance)
    /\ FloatLT(m.velocity, MicroMaxVelocity)

(* Direction reversals.  np.arctan2(dy, dx) lies in (-pi, pi] and is 0 for *)
(* the zero vector; the driver tests abs(prevAngle - currAngle) > pi / 2   *)
(* on these two numbers, without reducing the difference to [0, pi].  For  *)
(* integer vectors the two sides are apart by far more than the rounding   *)
(* of arctan2 unless the vectors are exactly perpendicular; then the       *)
(* outcome is that of the rounding.                                        *)
ReversalVelocity == 1500

(* the vector whose angle arctan2 returns: (1, 0) stands for the zero vector *)
AngleVector(m) == IF m.dx = 0 /\ m.dy = 0 THEN [dx |-> 1, dy |-> 0] ELSE [dx |-> m.dx, dy |-> m.dy]

Dot(a, b) == a.dx * b.dx + a.dy * b.dy

Cross(a, b) == a.dx * b.dy - a.dy * b.dx

(* arctan2 > 0 and arctan2 < 0 *)
AnglePositive(v) == v.dy > 0 \/ (v.dy = 0 /\ v.dx < 0)

AngleNegative(v) == v.dy < 0

(* abs(prevAngle - currAngle) > pi: the two angles have opposite signs and *)
(* the turn from the negative to the positive one, through 0, exceeds pi   *)
AngleGapOverPi(a, b) ==
    \/ AnglePositive(a) /\ AngleNegative(b) /\ Cross(a, b) > 0
    \/ AnglePositive(b) /\ AngleNegative(a) /\ Cross(b, a) > 0

(* arctan2 is a multiple of pi / 4, which the library returns as the      *)
(* float nearest to it: fl(pi) = 2 * fl(pi / 2) and fl(pi / 2) =           *)
(* 2 * fl(pi / 4), so the difference of two such angles a quarter turn     *)
(* apart is np.pi / 2 itself                                               *)
AngleExact(v) == v.dx = 0 \/ v.dy = 0 \/ Abs(v.dx) = Abs(v.dy)

(* the two numbers differ by a quarter turn of other vectors: the          *)
(* difference of the two rounded angles is np.pi / 2 or a float next to    *)
(* it, as the library rounds them                                          *)
AngleDiffRounded(a, b) == Dot(a, b) = 0 /\ ~AngleGapOverPi(a, b) /\ ~AngleExact(a)

(* the pairs of directions of consecutive movements whose test depends on  *)
(* the rounding of arctan2                                                 *)
RoundedAngles(ms) ==
    {{AngleVector(ms[i - 1]), AngleVector(ms[i])} : i \in
        {j \in 2..Len(ms) : /\ FloatGT(ms[j - 1].velocity, ReversalVelocity)
                            /\ AngleDiffRounded(AngleVector(ms[j - 1]), AngleVector(ms[j]))}}

(* abs(prevAngle - currAngle) > pi / 2: either the directions are more     *)
(* than 90 degrees apart, or the difference of the two numbers exceeds pi, *)
(* or the directions are perpendicular and the rounded difference is over  *)
(* np.pi / 2: over[{a, b}] tells so for the pairs of RoundedAngles         *)
AngleDiffOverHalfPi(prev, curr, over) ==
    LET a == AngleVector(prev)
        b == AngleVector(curr)
    IN  \/ Dot(a, b) < 0
        \/ AngleGapOverPi(a, b)
        \/ AngleDiffRounded(a, b) /\ over[{a, b}]

IsCorrection(prev, curr, over) ==
    FloatGT(prev.velocity, ReversalVelocity) /\ AngleDiffOverHalfPi(prev, curr, over)

RECURSIVE DriverCorrectionsFrom(_, _, _)
DriverCorrectionsFrom(ms, i, over) ==
    IF i > Len(ms) THEN <<>>
    ELSE (IF IsCorrection(ms[i - 1], ms[i], over)
          THEN <<[frame |-> ms[i].frameStart, correctionDistance |-> ms[i].distance]>>
          ELSE <<>>)
         \o DriverCorrectionsFrom(ms, i + 1, over)

DriverCorrections(ms, over) == DriverCorrectionsFrom(ms, 2, over)

DriverFlicks(ms) == detectFlicks(ms, DefaultFlickThreshold)

(* the diagnostics record; np.median of no velocity is NaN, and            *)
(* np.percentile of no velocity is NaN or raises IndexError, depending on  *)
(* the numpy release: percentile95 is the outcome taken.                   *)
analyzeTdmGameplayOf(smoothedPositions, ms, percentile95, over) ==
    [totalFrames |-> Len(smoothedPositions),
     totalDistance |-> getTotalDistance(ms),
     avgVelocity |-> getAverageVelocity(ms),
     maxVelocity |-> getMaxVelocity(ms),
     smoothness |-> getSmoothness(ms),
     avgFlickDistance |-> IF DriverFlicks(ms) # <<>>
                          THEN FloatMean(Distances(DriverFlicks(ms))) ELSE Float(0),
     microAdjustmentCount |-> Cardinality({i \in 1..Len(ms) : IsMicroAdjustment(ms[i])}),
     correctionCount |-> Len(DriverCorrections(ms, over)),
     avgCorrectionDistance |->
         IF DriverCorrections(ms, over) # <<>>
         THEN FloatMean([k \in 1..Len(DriverCorrections(ms, over)) |->
                          DriverCorrections(ms, over)[k].correctionDistance])
         ELSE Float(0),
     velocityMedian |-> Median(Velocities(ms)),
     velocity95th |-> percentile95,
     flickCount |-> Cardinality({i \in 1..Len(ms) : DriverIsFlick(ms[i])}),
     smallFlickCount |-> Cardinality({i \in 1..Len(ms) : DriverSmall(ms[i])}),
     mediumFlickCount |-> Cardinality({i \in 1..Len(ms) : DriverMedium(ms[i])}),
     largeFlickCount |-> Cardinality({i \in 1..Len(ms) : DriverLarge(ms[i])})]

(* the movements the driver analyses *)
DriverMovements(pos) == calculateMovements(smoothPositions(pos, SmoothingWindow))

(* what the driver does for tracked positions pos: it returns None, it    *)
(* returns the diagnostics record (one for each way arctan2 may round the  *)
(* perpendicular directions), or np.percentile raises                      *)
analyzeTdmGameplay(pos) ==
    Only({IF pos = <<>> THEN {None}
          ELSE IF ms = <<>>
          THEN {analyzeTdmGameplayOf(smoothed, ms, NaN, <<>>), Raised("IndexError")}
          ELSE Only({{analyzeTdmGameplayOf(smoothed, ms, percentile95, over) :
                        over \in [RoundedAngles(ms) -> BOOLEAN]} :
                       percentile95 \in {Percentile(Velocities(ms), 95)}}) :
             <<smoothed, ms>> \in
                 {<<smoothPositions(pos, SmoothingWindow), DriverMovements(pos)>>}})

----------------------------------------------------------------------------
(* provideDiagnostics (the TDM driver): the verdict it prints for a        *)
(* diagnostics record.  The verdict is                                     *)
(* [raised, direction, lowBound, tooLowScore, highBound, tooHighScore]:    *)
(* lowBound / highBound tell whether the local variable was assigned (the  *)
(* score is 0 when it was not), raised names the exception, "none" when    *)
(* the function returns.                                                   *)

BoolToInt(b) == IF b THEN 1 ELSE 0

(* count > flickCount * 0.6 *)
OverSixTenths(count, flickCount) ==
    FloatLess(FloatMultiply(Float(flickCount), Rat(6, 10)), Float(count))

LowMaxVelocityLimit == 8000
LowAvgVelocityLimit == 1000
HighMaxVelocityLimit == 15000
HighSmoothnessLimit == 1000

(* lines 185-198: the indicators *)
Indicators(d) ==
    [lowMaxVelocity |-> FloatLT(d.maxVelocity, LowMaxVelocityLimit),
     lowAvgVelocity |-> FloatLT(d.avgVelocity, LowAvgVelocityLimit),
     noLargeFlicks |-> d.largeFlickCount = 0,
     lotsOfSmallFlicks |-> OverSixTenths(d.smallFlickCount, d.flickCount),
     highCorrections |-> OverSixTenths(d.correctionCount, d.flickCount),
     highMicroAdjustments |-> d.microAdjustmentCount > d.flickCount * 2,
     highMaxVelocity |-> FloatGT(d.maxVelocity, HighMaxVelocityLimit),
     highSmoothness |-> FloatGT(d.smoothness, HighSmoothnessLimit)]

(* variant: lowMaxVelocity is not part of the additive score *)
ScoresWithoutMaxVelocity(ind) ==
    IF ind.highSmoothness /\ ind.lowMaxVelocity
    THEN [lowBound |-> TRUE, tooLowScore |-> 3, highBound |-> FALSE, tooHighScore |-> 0]
    ELSE IF ind.highSmoothness /\ ind.highMaxVelocity
    THEN [lowBound |-> FALSE, tooLowScore |-> 0, highBound |-> TRUE, tooHighScore |-> 3]
    ELSE [lowBound |-> TRUE,
          tooLowScore |-> BoolToInt(ind.lowAvgVelocity)
                          + BoolToInt(ind.noLargeFlicks) + BoolToInt(ind.lotsOfSmallFlicks),
          highBound |-> TRUE,
          tooHighScore |-> BoolToInt(ind.highCorrections /\ ind.highMaxVelocity)
                           + BoolToInt(ind.highMicroAdjustments /\ ind.highMaxVelocity)]

(* variant: the too-high score does not ask for a high maximum velocity *)
ScoresIgnoringVelocity(ind) ==
    IF ind.highSmoothness /\ ind.lowMaxVelocity
    THEN [lowBound |-> TRUE, tooLowScore |-> 3, highBound |-> FALSE, tooHighScore |-> 0]
    ELSE IF ind.highSmoothness /\ ind.highMaxVelocity
    THEN [lowBound |-> FALSE, tooLowScore |-> 0, highBound |-> TRUE, tooHighScore |-> 3]
    ELSE [lowBound |-> TRUE,
          tooLowScore |-> BoolToInt(ind.lowMaxVelocity) + BoolToInt(ind.lowAvgVelocity)
                          + BoolToInt(ind.noLargeFlicks) + BoolToInt(ind.lotsOfSmallFlicks),
          highBound |-> TRUE,
          tooHighScore |-> BoolToInt(ind.highCorrections)
                           + BoolToInt(ind.highMicroAdjustments)]

(* lines 202-211: each of the first two branches assigns one score only *)
Scores(ind) ==
    IF ind.highSmoothness /\ ind.lowMaxVelocity
    THEN [lowBound |-> TRUE, tooLowScore |-> 3, highBound |-> FALSE, tooHighScore |-> 0]
    ELSE IF ind.highSmoothness /\ ind.highMaxVelocity
    THEN [lowBound |-> FALSE, tooLowScore |-> 0, highBound |-> TRUE, tooHighScore |-> 3]
    ELSE [lowBound |-> TRUE,
          tooLowScore |-> BoolToInt(ind.lowMaxVelocity) + BoolToInt(ind.lowAvgVelocity)
                          + BoolToInt(ind.noLargeFlicks) + BoolToInt(ind.lotsOfSmallFlicks),
          highBound |-> TRUE,
          tooHighScore |-> BoolToInt(ind.highCorrections /\ ind.highMaxVelocity)
                           + BoolToInt(ind.highMicroAdjustments /\ ind.highMaxVelocity)]

Verdict(raised, direction, s) ==
    [raised |-> raised, direction |-> direction,
     lowBound |-> s.lowBound, tooLowScore |-> s.tooLowScore,
     highBound |-> s.highBound, tooHighScore |-> s.tooHighScore]

(* lines 216-241: "if tooLowScore >= 2 ... elif tooHighScore >= 2 ... else"; *)
(* reading a score that was not assigned raises UnboundLocalError, and the *)
(* small-flick percentage divides by flickCount.                           *)
provideDiagnostics(d) ==
    LET ind == Indicators(d)
        s == Scores(ind)
    IN  IF ~s.lowBound THEN Verdict("UnboundLocalError", "none", s)
        ELSE IF s.tooLowScore >= 2
        THEN IF ind.lotsOfSmallFlicks /\ d.flickCount = 0
             THEN Verdict("ZeroDivisionError", "too-low", s)
             ELSE Verdict("none", "too-low", s)
        ELSE IF ~s.highBound THEN Verdict("UnboundLocalError", "none", s)
        ELSE IF s.tooHighScore >= 2 THEN Verdict("none", "too-high", s)
        ELSE Verdict("none", "reasonable", s)

(* Diagnostics records around every limit of the reasoner; the flick tier  *)
(* counts never exceed the flick count.                                    *)
DiagnosticsRecords ==
    {d \in [maxVelocity : {Float(3000), Float(8000), Float(15000), Float(16000)},
            avgVelocity : {Float(500), Float(1000), Float(2000)},
            smoothness : {Float(500), Float(1000), Float(1001)},
            flickCount : {0, 5},
            smallFlickCount : {0, 3, 4},
            largeFlickCount : {0, 1},
            correctionCount : {0, 3, 4},
            microAdjustmentCount : {0, 10, 11},
            avgFlickDistance : {Float(0), Float(250)},
            velocity95th : {Float(3500), Float(5000)}] :
        d.smallFlickCount + d.largeFlickCount <= d.flickCount}

----------------------------------------------------------------------------
(* Target detections and the accuracy-scoring extension.  A target is      *)
(* {x, y, width, height, confidence} (confidence in percent).              *)

DefaultMaxDistance == 300

OnTargetTolerance == 15

Target(x, y, confidence) ==
    [x |-> x, y |-> y, width |-> 40, height |-> 100, confidence |-> confidence]

TargetDistance(crosshairPos, target) ==
    Sqrt((crosshairPos[1] - target.x) * (crosshairPos[1] - target.x)
         + (crosshairPos[2] - target.y) * (crosshairPos[2] - target.y))

(* target.copy() with the key 'distance' added *)
WithDistance(target, distance) ==
    [x |-> target.x, y |-> target.y, width |-> target.width, height |-> target.height,
     confidence |-> target.confidence, distance |-> distance]

(* the loop over the targets; nearestDistance is infinite exactly while    *)
(* nearestTarget is None                                                   *)
(* variant: "distance <= nearestDistance", the last of equally near targets *)
RECURSIVE NearestFromLastOnTies(_, _, _, _, _)
NearestFromLastOnTies(crosshairPos, targets, i, maxDistance, nearestTarget) ==
    IF i > Len(targets) THEN nearestTarget
    ELSE LET distance == TargetDistance(crosshairPos, targets[i])
         IN  NearestFromLastOnTies(crosshairPos, targets, i + 1, maxDistance,
                IF (nearestTarget = None \/ ~FloatLess(nearestTarget.distance, distance))
                   /\ FloatLT(distance, maxDistance)
                THEN WithDistance(targets[i], distance)
                ELSE nearestTarget)

RECURSIVE NearestFrom(_, _, _, _, _)
NearestFrom(crosshairPos, targets, i, maxDistance, nearestTarget) ==
    IF i > Len(targets) THEN nearestTarget
    ELSE LET distance == TargetDistance(crosshairPos, targets[i])
         IN  NearestFrom(crosshairPos, targets, i + 1, maxDistance,
                IF (nearestTarget = None \/ FloatLess(distance, nearestTarget.distance))
                   /\ FloatLT(distance, maxDistance)
                THEN WithDistance(targets[i], distance)
                ELSE nearestTarget)

findNearestTarget(crosshairPos, targets, maxDistance) ==
    IF targets = <<>> THEN None
    ELSE NearestFrom(crosshairPos, targets, 1, maxDistance, None)

(* the target list as the call leaves it: the chosen target is copied      *)
(* before 'distance' is attached, so the list and its records are as given *)
TargetsAfterFind(crosshairPos, targets, maxDistance) == targets

(* analyzeFlickAccuracyWithTargets: video[f] tells whether frame f can be  *)
(* read and which targets detectHeads finds in it.                         *)
(* variant: the tolerance band is open, "error >= 15" is an overshoot      *)
CategoryOpenBand(error) ==
    IF FloatGE(error, OnTargetTolerance) THEN "overshoot"
    ELSE IF FloatLE(error, 0 - OnTargetTolerance) THEN "undershoot"
    ELSE "on-target"

Category(error) ==
    IF FloatGT(error, OnTargetTolerance) THEN "overshoot"
    ELSE IF FloatLT(error, 0 - OnTargetTolerance) THEN "undershoot"
    ELSE "on-target"

(* the flick data of the movement from pos[i] to pos[i + 1], or None when  *)
(* the movement is skipped                                                 *)
FlickAccuracy(pos, video, i, velocityThreshold) ==
    LET prev == pos[i]
        curr == pos[i + 1]
        m == Movement(prev, curr)
    IN  IF ~FloatGT(m.velocity, velocityThreshold) THEN None
        ELSE IF ~video[curr.frameNumber].readable THEN None
        ELSE IF video[curr.frameNumber].targets = <<>> THEN None
        ELSE LET nearestTarget == findNearestTarget(<<curr.x, curr.y>>,
                                      video[curr.frameNumber].targets, DefaultMaxDistance)
             IN  IF nearestTarget = None THEN None
                 ELSE LET targetDx == nearestTarget.x - prev.x
                          targetDy == nearestTarget.y - prev.y
                          distanceToTarget == Sqrt(targetDx * targetDx + targetDy * targetDy)
                          dotProduct == m.dx * targetDx + m.dy * targetDy
                      IN  IF Sign(distanceToTarget) > 0
                          THEN Only({[category |-> Category(error),
                                      frameNumber |-> curr.frameNumber,
                                      error |-> error,
                                      distanceToTarget |-> distanceToTarget,
                                      flickDistance |-> m.distance,
                                      targetConfidence |-> nearestTarget.confidence] :
                                        error \in {FloatSub(FloatDivide(Float(dotProduct),
                                                                       distanceToTarget),
                                                           distanceToTarget)}})
                          ELSE None

RECURSIVE FlickResultsFrom(_, _, _, _)
FlickResultsFrom(pos, video, i, velocityThreshold) ==
    IF i >= Len(pos) THEN <<>>
    ELSE Only({(IF flickData = None THEN <<>> ELSE <<flickData>>)
               \o FlickResultsFrom(pos, video, i + 1, velocityThreshold) :
                  flickData \in {FlickAccuracy(pos, video, i, velocityThreshold)}})

InCategory(results, category) ==
    SelectSeq(results, LAMBDA f : f.category = category)

Errors(results) == [k \in 1..Len(results) |-> results[k].error]

AbsErrors(results) == [k \in 1..Len(results) |-> FloatAbs(results[k].error)]

analyzeFlickAccuracyWithTargets(pos, video, velocityThreshold) ==
    Only({LET overshoot == InCategory(results, "overshoot")
              undershoot == InCategory(results, "undershoot")
              onTarget == InCategory(results, "on-target")
              totalFlicks == Len(overshoot) + Len(undershoot) + Len(onTarget)
          IN  IF totalFlicks = 0 THEN None
              ELSE [totalFlicks |-> totalFlicks,
                    overshootCount |-> Len(overshoot),
                    undershootCount |-> Len(undershoot),
                    onTargetCount |-> Len(onTarget),
                    overshootPercent |->
                        FloatMultiply(Rat(Len(overshoot), totalFlicks), Float(100)),
                    undershootPercent |->
                        FloatMultiply(Rat(Len(undershoot), totalFlicks), Float(100)),
                    onTargetPercent |->
                        FloatMultiply(Rat(Len(onTarget), totalFlicks), Float(100)),
                    avgOvershootError |->
                        IF overshoot # <<>> THEN FloatMean(Errors(overshoot))
                        ELSE Float(0),
                    avgUndershootError |->
                        IF undershoot # <<>> THEN FloatMean(AbsErrors(undershoot))
                        ELSE Float(0)] :
             results \in {FlickResultsFrom(pos, video, 1, velocityThreshold)}})

----------------------------------------------------------------------------
(* The instance: Init is the state after CrosshairMetrics(positions).  The *)
(* engine is synchronous: the caller makes one call at a time on the idle  *)
(* instance (op = "idle"); the call is recorded with its arguments and its *)
(* result until the caller drops the result and the instance is idle again.*)

Init ==
    /\ positions \in Inputs
    /\ movements = calculateMovements(positions)
    /\ op = "idle"
    /\ arg = None
    /\ ret = None

Frames == {positions[i].frameNumber : i \in 1..Len(positions)}

(* frame numbers asked for: every tracked frame and one that is not tracked *)
FrameArgs == Frames \cup {1 + SumSeq([i \in 1..Len(positions) |-> 2])}

DetectFlicks ==
    \E t \in FlickThresholds :
        /\ op = "idle"
        /\ op' = "detectFlicks"
        /\ arg' = [velocityThreshold |-> t]
        /\ ret' = detectFlicks(movements, t)
        /\ UNCHANGED <<positions, movements>>

DetectFlicksByDistance ==
    \E t \in FlickThresholds :
        /\ op = "idle"
        /\ op' = "detectFlicksByDistance"
        /\ arg' = [velocityThreshold |-> t]
        /\ ret' = detectFlicksByDistance(movements, t)
        /\ UNCHANGED <<positions, movements>>

AnalyzeFlickCorrections ==
    \E f \in FrameArgs, la \in LookAheads :
        /\ op = "idle"
        /\ op' = "analyzeFlickCorrections"
        /\ arg' = [flickFrame |-> f, lookAheadFrames |-> la]
        /\ ret' = analyzeFlickCorrections(positions, f, la)
        /\ UNCHANGED <<positions, movements>>

GetTrackingSegments ==
    \E t \in TrackingThresholds :
        /\ op = "idle"
        /\ op' = "getTrackingSegments"
        /\ arg' = [velocityThreshold |-> t]
        /\ ret' = getTrackingSegments(movements, t)
        /\ UNCHANGED <<positions, movements>>

AnalyzeTdmGameplay ==
    /\ op = "idle"
    /\ op' = "analyzeTdmGameplay"
    /\ arg' = None
    /\ ret' \in analyzeTdmGameplay(positions)
    /\ UNCHANGED <<positions, movements>>

GetFlickAnalysisByDistance ==
    \E t \in FlickThresholds :
        /\ op = "idle"
        /\ op' = "getFlickAnalysisByDistance"
        /\ arg' = [velocityThreshold |-> t]
        /\ ret' = getFlickAnalysisByDistance(positions, movements, t)
        /\ UNCHANGED <<positions, movements>>

GetSummary ==
    /\ op = "idle"
    /\ op' = "getSummary"
    /\ arg' = None
    /\ ret' = getSummary(positions, movements)
    /\ UNCHANGED <<positions, movements>>

(* the caller is done with the result (e.g. the loop of testMetrics.py     *)
(* that overwrites "flicks" at each threshold)                             *)
DropResult ==
    /\ op # "idle"
    /\ op' = "idle"
    /\ arg' = None
    /\ ret' = None
    /\ UNCHANGED <<positions, movements>>

(* provideDiagnostics is a function of the record alone: it is checked on  *)
(* its own, over DiagnosticsRecords.                                       *)
InitDiag ==
    /\ positions = <<>>
    /\ movements = <<>>
    /\ op = "idle"
    /\ arg = None
    /\ ret = None

ProvideDiagnostics ==
    \E d \in DiagnosticsRecords :
        /\ op = "idle"
        /\ op' = "provideDiagnostics"
        /\ arg' = d
        /\ ret' = provideDiagnostics(d)
        /\ UNCHANGED <<positions, movements>>

NextDiag == ProvideDiagnostics \/ DropResult

SpecDiag == InitDiag /\ [][NextDiag]_vars

(* variant: the call uses up the movement list *)
GetSmoothnessConsuming ==
    /\ op = "idle"
    /\ op' = "getSmoothness"
    /\ arg' = None
    /\ ret' = getSmoothness(movements)
    /\ movements' = <<>>
    /\ UNCHANGED positions

GetSmoothness ==
    /\ op = "idle"
    /\ op' = "getSmoothness"
    /\ arg' = None
    /\ ret' = getSmoothness(movements)
    /\ UNCHANGED <<positions, movements>>

GetFlickStats ==
    \E t \in FlickThresholds :
        /\ op = "idle"
        /\ op' = "getFlickStats"
        /\ arg' = [velocityThreshold |-> t]
        /\ ret' = getFlickStats(movements, t)
        /\ UNCHANGED <<positions, movements>>

(* analyzeFlickAccuracyWithTargets is a function of the crosshair          *)
(* positions, of the video and of the detector: it is checked on its own.  *)
(* The positions start at (0,0) and take 100px flicks along x or stay in   *)
(* place; a frame of the video is unreadable or shows the targets of one   *)
(* of a few detections, placed around the limits of the tolerance band     *)
(* for a flick from (0,0) to (100,0), or off the line of the flick (at     *)
(* (100,20): sqrt(10400) px from (0,0)).                                   *)
AccuracySteps == { Step(100, 0, Dyadic(1), 1), Step(0, 0, Dyadic(1), 1) }

AccuracyInputs ==
    {PositionsFrom(FirstPosition, s) : s \in StepSeqs(AccuracySteps, MaxAccuracyLen - 1)}

FrameOptions ==
    { [readable |-> FALSE, targets |-> <<>>],
      [readable |-> TRUE, targets |-> <<>>],
      [readable |-> TRUE, targets |-> <<Target(84, 0, 90)>>],
      [readable |-> TRUE, targets |-> <<Target(85, 0, 90)>>],
      [readable |-> TRUE, targets |-> <<Target(115, 0, 90)>>],
      [readable |-> TRUE, targets |-> <<Target(116, 0, 90)>>],
      [readable |-> TRUE, targets |-> <<Target(116, 0, 60), Target(85, 0, 90)>>],
      [readable |-> TRUE, targets |-> <<Target(0, 0, 90)>>],
      [readable |-> TRUE, targets |-> <<Target(500, 0, 90)>>],
      [readable |-> TRUE, targets |-> <<Target(100, 75, 90)>>],
      [readable |-> TRUE, targets |-> <<Target(100, 20, 90)>>] }

Videos == [1..(MaxAccuracyLen - 1) -> FrameOptions]

InitAccuracy ==
    /\ positions \in AccuracyInputs
    /\ movements = <<>>
    /\ op = "idle"
    /\ arg = None
    /\ ret = None

AnalyzeFlickAccuracyWithTargets ==
    \E video \in Videos :
        /\ op = "idle"
        /\ op' = "analyzeFlickAccuracyWithTargets"
        /\ arg' = [video |-> video, velocityThreshold |-> DefaultFlickThreshold]
        /\ ret' = analyzeFlickAccuracyWithTargets(positions, video, DefaultFlickThreshold)
        /\ UNCHANGED <<positions, movements>>

NextAccuracy == AnalyzeFlickAccuracyWithTargets \/ DropResult

SpecAccuracy == InitAccuracy /\ [][NextAccuracy]_vars

(* findNearestTarget is a function of the crosshair position, of the      *)
(* target list and of the cutoff: it is checked on its own, for the        *)
(* crosshair at (0,0) and targets at distances 0, sqrt(5), sqrt(20), 5     *)
(* (three of them), 299 and 300 (two of them).                             *)
TargetChoices ==
    { Target(3, 4, 90), Target(4, 3, 60), Target(0, 5, 90), Target(0, 0, 90),
      Target(1, 2, 90), Target(2, 4, 60),
      Target(299, 0, 90), Target(300, 0, 90), Target(180, 240, 60) }

TargetLists == UNION {[1..k -> TargetChoices] : k \in 0..MaxTargets}

MaxDistances == {DefaultMaxDistance, 5}

InitTarget ==
    /\ positions = <<>>
    /\ movements = <<>>
    /\ op = "idle"
    /\ arg = None
    /\ ret = None

FindNearestTarget ==
    \E targets \in TargetLists, maxDistance \in MaxDistances :
        /\ op = "idle"
        /\ op' = "findNearestTarget"
        /\ arg' = [crosshairPos |-> <<0, 0>>, given |-> targets, maxDistance |-> maxDistance,
                   targets |-> TargetsAfterFind(<<0, 0>>, targets, maxDistance)]
        /\ ret' = findNearestTarget(<<0, 0>>, targets, maxDistance)
        /\ UNCHANGED <<positions, movements>>

NextTarget == FindNearestTarget \/ DropResult

SpecTarget == InitTarget /\ [][NextTarget]_vars

----------------------------------------------------------------------------
(* trackCrosshairInVideo (crosshairTracker.py): the frame loop, one step   *)
(* per cap.read().  A video is the sequence of what detectCrosshair finds  *)
(* in each of its frames: nothing (NoCrosshair, Python's None) or an       *)
(* (x, y) tuple (every tuple is truthy, (0, 0) included).  The frame rate   *)
(* is what cap.get(cv2.CAP_PROP_FPS) returns, read without a check: a      *)
(* positive float, or 0.0 when the container does not tell it.  positions  *)
(* is the list crosshairPositions being built; arg holds the call's        *)
(* arguments and the loop counter frameNumber.                             *)

NoCrosshair == <<>>

FrameDetections == {NoCrosshair, <<960, 540>>, <<0, 0>>}

VideoFrames == UNION {[1..k -> FrameDetections] : k \in 0..MaxFrames}

SampleRates == 1..MaxSampleRate

FrameRates == {Float(0), Float(30), Float(60), Rat(30000, 1001)}

InitTrack ==
    /\ positions = <<>>
    /\ movements = <<>>
    /\ op = "idle"
    /\ arg = None
    /\ ret = None

(* lines 73-76: the capture does not open *)
VideoNotOpened ==
    /\ op = "idle"
    /\ op' = "trackCrosshairInVideo"
    /\ arg' = None
    /\ ret' = [raised |-> "ValueError", crosshairPositions |-> <<>>]
    /\ UNCHANGED <<positions, movements>>

(* lines 73-82: the capture opens; fps, the empty list, frameNumber = 0 *)
OpenVideo ==
    \E video \in VideoFrames, sampleRate \in SampleRates, fps \in FrameRates :
        /\ op = "idle"
        /\ op' = "frameLoop"
        /\ arg' = [video |-> video, sampleRate |-> sampleRate, fps |-> fps,
                   frameNumber |-> 0]
        /\ positions' = <<>>
        /\ ret' = None
        /\ UNCHANGED movements

(* line 94: timestamp = frameNumber / fps, tabulated for the frame numbers *)
(* and frame rates of the videos; a division by 0.0 raises                 *)
Timestamps ==
    [fps \in FrameRates |->
        [frameNumber \in 0..MaxFrames |->
            IF fps = Float(0) THEN Raised("ZeroDivisionError")
            ELSE FloatDivide(Float(frameNumber), fps)]]

Sample(frameNumber, position, fps) ==
    [frameNumber |-> frameNumber, x |-> position[1], y |-> position[2],
     timestamp |-> Timestamps[fps][frameNumber]]

(* lines 84-102: one iteration whose cap.read() returns a frame.  On a     *)
(* sampled frame with a crosshair the timestamp is computed; when the      *)
(* division raises, the exception leaves the function: nothing is returned *)
(* and the list built so far is lost with the frame of the call            *)
ReadFrame ==
    /\ op = "frameLoop"
    /\ arg.frameNumber < Len(arg.video)
    /\ LET position == arg.video[arg.frameNumber + 1]
           sampled == arg.frameNumber % arg.sampleRate = 0 /\ position # NoCrosshair
       IN  IF sampled /\ Timestamps[arg.fps][arg.frameNumber] = Raised("ZeroDivisionError")
           THEN /\ op' = "trackCrosshairInVideo"
                /\ ret' = [raised |-> "ZeroDivisionError", crosshairPositions |-> <<>>]
                /\ UNCHANGED <<positions, movements, arg>>
           ELSE /\ positions' = IF sampled
                                 THEN Append(positions,
                                             Sample(arg.frameNumber, position, arg.fps))
                                 ELSE positions
                /\ arg' = [arg EXCEPT !.frameNumber = @ + 1]
                /\ UNCHANGED <<movements, op, ret>>

(* lines 85-87 and 108-111: cap.read() fails, the loop breaks and the list *)
(* is returned                                                             *)
EndOfVideo ==
    /\ op = "frameLoop"
    /\ arg.frameNumber = Len(arg.video)
    /\ op' = "trackCrosshairInVideo"
    /\ ret' = [raised |-> "none", crosshairPositions |-> positions]
    /\ UNCHANGED <<positions, movements, arg>>

(* the caller takes the result *)
TakeTrack ==
    /\ op = "trackCrosshairInVideo"
    /\ op' = "idle"
    /\ arg' = None
    /\ ret' = None
    /\ positions' = <<>>
    /\ UNCHANGED movements

NextTrack == VideoNotOpened \/ OpenVideo \/ ReadFrame \/ EndOfVideo \/ TakeTrack

SpecTrack == InitTrack /\ [][NextTrack]_vars

(* the loop is sequential code: an iteration that can run does run *)
SpecTrackFair == SpecTrack /\ WF_vars(ReadFrame) /\ WF_vars(EndOfVideo)

Next ==
    \/ DetectFlicks
    \/ DetectFlicksByDistance
    \/ AnalyzeFlickCorrections
    \/ GetTrackingSegments
    \/ AnalyzeTdmGameplay
    \/ GetFlickAnalysisByDistance
    \/ GetSummary
    \/ GetSmoothness
    \/ GetFlickStats
    \/ DropResult

Spec == Init /\ [][Next]_vars

(* The instance keeps the list it was given (self.positions = positions)   *)
(* and derives the movements once, in the constructor.  A caller that      *)
(* still holds the list can append the next tracked sample to it: the      *)
(* instance then sees the longer list, and its movements are untouched.    *)
AppendedSteps == { Step(1, 0, Dyadic(1), 1), Step(60, 80, Dyadic(1), 1) }

AliasInputs ==
    {<<>>} \cup {PositionsFrom(FirstPosition, s) : s \in StepSeqs(GeneralSteps, MaxLen - 2)}

InitAlias ==
    /\ positions \in AliasInputs
    /\ movements = calculateMovements(positions)
    /\ op = "idle"
    /\ arg = None
    /\ ret = None

AppendSample ==
    \E s \in AppendedSteps :
        /\ op = "idle"
        /\ Len(positions) < MaxLen
        /\ positions' =
              IF positions = <<>> THEN <<FirstPosition>>
              ELSE Append(positions, PositionsFrom(positions[Len(positions)], <<s>>)[2])
        /\ UNCHANGED <<movements, op, arg, ret>>

NextAlias ==
    \/ AppendSample
    \/ DetectFlicks
    \/ AnalyzeFlickCorrections
    \/ GetFlickAnalysisByDistance
    \/ DropResult

SpecAlias == InitAlias /\ [][NextAlias]_vars

----------------------------------------------------------------------------
(* Properties *)

NumMovements == Len(movements)

(* velocity of movement i against an integer threshold *)
FasterThan(i, t) == FloatGT(movements[i].velocity, t)

(* the squared length of movement i *)
MoveSquared(i) == movements[i].dx * movements[i].dx + movements[i].dy * movements[i].dy

SameFlick(f, i) ==
    /\ f.frameStart = movements[i].frameStart
    /\ f.frameEnd = movements[i].frameEnd
    /\ f.distance = movements[i].distance
    /\ f.velocity = movements[i].velocity

FramePairs(flicks) == {<<flicks[k].frameStart, flicks[k].frameEnd>> : k \in 1..Len(flicks)}

(* C1: the movement derivation yields exactly max(n-1, 0) movements for n  *)
(* positions, movement k going from position k to position k+1, each with  *)
(* distance >= 0.                                                          *)
C1_MovementPerPair ==
    /\ Len(movements) = Max(Len(positions) - 1, 0)
    /\ \A k \in 1..Len(movements) :
          /\ k + 1 <= Len(positions)
          /\ movements[k].frameStart = positions[k].frameNumber
          /\ movements[k].frameEnd = positions[k + 1].frameNumber
          /\ Sign(movements[k].distance) >= 0
          /\ movements[k].distance = Sqrt(MoveSquared(k))

C1_Witness ==
    /\ Len(positions) = 4
    /\ Len(movements) = 3
    /\ movements[3].frameStart = positions[3].frameNumber
    /\ movements[3].frameEnd = positions[4].frameNumber
    /\ movements[3].frameEnd > 3

(* C2: every derived velocity is >= 0, equals distance/timeDiff when       *)
(* timeDiff > 0, and is exactly 0 when timeDiff <= 0.                      *)
C2_VelocityPolicy ==
    \A k \in 1..Len(movements) :
        LET m == movements[k]
        IN  /\ Sign(m.velocity) >= 0
            /\ Sign(m.timeDiff) > 0 => m.velocity = FloatDivide(m.distance, m.timeDiff)
            /\ Sign(m.timeDiff) <= 0 => m.velocity = Float(0)

C2_Witness ==
    /\ \E k \in 1..Len(movements) :
          /\ Sign(movements[k].timeDiff) = 0
          /\ Sign(movements[k].distance) > 0
          /\ movements[k].velocity = Float(0)
    /\ \E k \in 1..Len(movements) :
          /\ Sign(movements[k].timeDiff) < 0
          /\ Sign(movements[k].distance) > 0
          /\ movements[k].velocity = Float(0)
    /\ \E k \in 1..Len(movements) :
          Sign(movements[k].timeDiff) > 0 /\ Sign(movements[k].velocity) > 0

(* C3: detectFlicks(threshold) returns, in the original order, exactly the *)
(* movements whose velocity is strictly greater than the threshold, and    *)
(* every flick at a threshold is a flick at every lower threshold.         *)
C3_StrictAndMonotone ==
    op = "detectFlicks" =>
        LET t == arg.velocityThreshold
            fast == {i \in 1..NumMovements : FasterThan(i, t)}
            rank(i) == Cardinality({j \in fast : j <= i})
        IN  /\ Len(ret) = Cardinality(fast)
            /\ \A i \in fast : /\ SameFlick(ret[rank(i)], i)
                                /\ ret[rank(i)].direction = movements[i].direction
            /\ \A t2 \in FlickThresholds :
                  t2 <= t =>
                    \A k \in 1..Len(ret) :
                        \E j \in 1..Len(detectFlicks(movements, t2)) :
                            detectFlicks(movements, t2)[j] = ret[k]

C3_Witness ==
    /\ op = "detectFlicks"
    /\ arg.velocityThreshold = DefaultFlickThreshold
    /\ Len(ret) >= 1
    /\ \E i \in 1..NumMovements :
          /\ movements[i].velocity = Float(DefaultFlickThreshold)
          /\ \A k \in 1..Len(ret) : ret[k].frameStart # movements[i].frameStart
    /\ Len(detectFlicks(movements, 500)) > Len(ret)

(* C4: every flick of detectFlicksByDistance is in exactly one of the      *)
(* tiers small, medium, large, and the union of the tiers (by frameStart,  *)
(* frameEnd) is the set of detectFlicks at the same threshold, so that the *)
(* tier counts sum to the flick count.                                     *)
C4_TiersPartitionFlicks ==
    op = "detectFlicksByDistance" =>
        LET flicks == detectFlicks(movements, arg.velocityThreshold)
            S == FramePairs(ret.small)
            M == FramePairs(ret.medium)
            L == FramePairs(ret.large)
        IN  /\ S \cap M = {} /\ S \cap L = {} /\ M \cap L = {}
            /\ S \cup M \cup L = FramePairs(flicks)
            /\ Cardinality(S) = Len(ret.small)
            /\ Cardinality(M) = Len(ret.medium)
            /\ Cardinality(L) = Len(ret.large)
            /\ Len(ret.small) + Len(ret.medium) + Len(ret.large) = Len(flicks)

C4_Witness ==
    /\ op = "detectFlicksByDistance"
    /\ arg.velocityThreshold = DefaultFlickThreshold
    /\ Len(ret.small) = 1 /\ Len(ret.medium) = 1 /\ Len(ret.large) = 1
    /\ Len(detectFlicks(movements, DefaultFlickThreshold)) = 3

(* C5: a flick is in tier small iff its distance is in [0,100), medium iff *)
(* in [100,300), large iff >= 300 (100 is medium, 300 is large), in        *)
(* detectFlicksByDistance and in the tier counts of the TDM driver.        *)
InTier(flicks, i) == \E k \in 1..Len(flicks) : SameFlick(flicks[k], i)

C5_TierBoundaries ==
    /\ op = "detectFlicksByDistance" =>
          \A i \in 1..NumMovements :
              FasterThan(i, arg.velocityThreshold) =>
                  LET d2 == MoveSquared(i)
                  IN  /\ InTier(ret.small, i) <=> (0 <= d2 /\ d2 < 100 * 100)
                      /\ InTier(ret.medium, i) <=> (100 * 100 <= d2 /\ d2 < 300 * 300)
                      /\ InTier(ret.large, i) <=> d2 >= 300 * 300
    /\ (op = "analyzeTdmGameplay" /\ "flickCount" \in DOMAIN ret) =>
          LET ms == DriverMovements(positions)
              byDistance == detectFlicksByDistance(ms, DefaultFlickThreshold)
              at(d) == {i \in 1..Len(ms) :
                            FloatGT(ms[i].velocity, 2000) /\ ms[i].distance = Float(d)}
          IN  /\ ret.smallFlickCount = Len(byDistance.small)
              /\ ret.mediumFlickCount = Len(byDistance.medium)
              /\ ret.largeFlickCount = Len(byDistance.large)
              /\ ret.mediumFlickCount >= Cardinality(at(100))
              /\ ret.largeFlickCount >= Cardinality(at(300))

C5_Witness ==
    /\ op = "detectFlicksByDistance"
    /\ arg.velocityThreshold = DefaultFlickThreshold
    /\ \E k \in 1..Len(ret.medium) : ret.medium[k].distance = Float(100)
    /\ \E k \in 1..Len(ret.large) : ret.large[k].distance = Float(300)
    /\ \E k \in 1..Len(ret.small) : FloatLT(ret.small[k].distance, 100)
    /\ \E r \in analyzeTdmGameplay(positions) :
           r.mediumFlickCount = 1 /\ r.largeFlickCount = 1

(* Tracking: movement i qualifies at threshold t *)
Qualifies(i, t) ==
    /\ FloatLE(movements[i].velocity, t)
    /\ MoveSquared(i) > 5 * 5

(* segment seg is the run of movements a .. a + duration - 1 *)
IsRunAt(seg, a, t) ==
    LET b == a + seg.duration - 1
    IN  /\ b <= NumMovements
        /\ movements[a].frameStart = seg.startFrame
        /\ movements[b].frameEnd = seg.endFrame
        /\ \A j \in a..b : Qualifies(j, t)
        /\ seg.distance = FloatSumSeq([j \in 1..seg.duration |-> movements[a + j - 1].distance])
        /\ seg.avgVelocity = FloatMean([j \in 1..seg.duration |-> movements[a + j - 1].velocity])

(* positions is the steady sequence of d px steps (the lengths and the     *)
(* second sample are compared first)                                       *)
IsSteady(d) ==
    /\ Len(positions) = 10
    /\ positions[2].x = d /\ positions[10].x = 9 * d
    /\ positions = SteadyPositions(d)

(* C6 as stated: 10 positions 5px apart every 0.02s yield exactly one      *)
(* tracking segment, of duration 8 and distance 40.                        *)
C6_SteadyOneSegment ==
    (/\ IsSteady(5)
     /\ op = "getTrackingSegments"
     /\ arg.velocityThreshold = DefaultTrackingThreshold) =>
        /\ Len(ret) = 1
        /\ ret[1].duration = 8
        /\ ret[1].distance = Float(40)

(* C6 amended: 10 positions 5px apart every 0.02s give 9 movements of 5px  *)
(* at 250 px/s (to the rounding of the floating-point division) and no     *)
(* tracking segment (a tracking movement has distance > 5); 6px apart      *)
(* (300 px/s) they give exactly one segment, of duration 9 and distance    *)
(* 54.                                                                     *)
C6_SteadyAmended ==
    /\ IsSteady(5) =>
          /\ NumMovements = 9
          /\ \A i \in 1..9 : movements[i].distance = Float(5)
                              /\ Near(movements[i].velocity, 250)
          /\ (op = "getTrackingSegments"
                /\ arg.velocityThreshold = DefaultTrackingThreshold) => ret = <<>>
    /\ (/\ IsSteady(6)
         /\ op = "getTrackingSegments"
         /\ arg.velocityThreshold = DefaultTrackingThreshold) =>
          /\ Len(ret) = 1
          /\ ret[1].duration = 9
          /\ ret[1].distance = Float(54)
          /\ Near(ret[1].avgVelocity, 300)
          /\ ret[1].startFrame = 0 /\ ret[1].endFrame = 9

C6_Witness ==
    /\ IsSteady(5)
    /\ Len(positions) = 10
    /\ op = "getTrackingSegments"
    /\ arg.velocityThreshold = DefaultTrackingThreshold
    /\ ret = <<>>

(* C7: every tracking segment has duration >= 3 and is a run of            *)
(* consecutive movements that all have velocity <= threshold and distance  *)
(* > 5; its distance is the sum and its avgVelocity the mean over the run; *)
(* the runs are disjoint and in increasing order.                          *)
C7_SegmentsAreRuns ==
    op = "getTrackingSegments" =>
        LET t == arg.velocityThreshold
        IN  /\ \A k \in 1..Len(ret) :
                  /\ ret[k].duration >= 3
                  /\ \E a \in 1..NumMovements : IsRunAt(ret[k], a, t)
            /\ \A k \in 1..(Len(ret) - 1) :
                  \E a \in 1..NumMovements, a2 \in 1..NumMovements :
                      /\ IsRunAt(ret[k], a, t)
                      /\ IsRunAt(ret[k + 1], a2, t)
                      /\ a + ret[k].duration - 1 < a2

C7_Witness ==
    /\ op = "getTrackingSegments"
    /\ Len(ret) = 2
    /\ ret[1].duration = 3
    /\ ret[1].endFrame < ret[2].startFrame
    /\ ret[2].duration = 3

(* C8: there is exactly one segment for every maximal run of at least 3    *)
(* consecutive qualifying movements, the run that reaches the end of the   *)
(* list included, and none for the maximal runs of 1 or 2.                 *)
MaximalRuns(t) ==
    {r \in (1..NumMovements) \X (1..NumMovements) :
        /\ r[1] <= r[2]
        /\ \A j \in r[1]..r[2] : Qualifies(j, t)
        /\ r[1] = 1 \/ ~Qualifies(r[1] - 1, t)
        /\ r[2] = NumMovements \/ ~Qualifies(r[2] + 1, t)}

SegmentOfRun(seg, r) ==
    /\ seg.startFrame = movements[r[1]].frameStart
    /\ seg.endFrame = movements[r[2]].frameEnd
    /\ seg.duration = r[2] - r[1] + 1

C8_OneSegmentPerLongRun ==
    op = "getTrackingSegments" =>
        LET runs == MaximalRuns(arg.velocityThreshold)
            long == {r \in runs : r[2] - r[1] + 1 >= 3}
        IN  /\ Len(ret) = Cardinality(long)
            /\ \A r \in long :
                  Cardinality({k \in 1..Len(ret) : SegmentOfRun(ret[k], r)}) = 1
            /\ \A r \in runs \ long :
                  \A k \in 1..Len(ret) :
                      ret[k].startFrame > movements[r[2]].frameStart
                      \/ ret[k].endFrame < movements[r[1]].frameEnd

C8_Witness ==
    /\ op = "getTrackingSegments"
    /\ Len(ret) = 1
    /\ ret[1].endFrame = positions[Len(positions)].frameNumber
    /\ ret[1].duration = 3
    /\ \E r \in MaximalRuns(arg.velocityThreshold) : r[2] - r[1] + 1 = 2

(* Stability look-ahead: the 1-based indices of the positions at frame f,  *)
(* and the squared length of the step that ends at position k              *)
PositionsAt(f) == {i \in 1..Len(positions) : positions[i].frameNumber = f}

First(S) == CHOOSE i \in S : \A j \in S : i <= j

StepSquared(k) ==
    (positions[k].x - positions[k - 1].x) * (positions[k].x - positions[k - 1].x)
    + (positions[k].y - positions[k - 1].y) * (positions[k].y - positions[k - 1].y)

(* C9: analyzeFlickCorrections returns None iff no position is at          *)
(* flickFrame or fewer than lookAheadFrames samples follow that position;  *)
(* otherwise the record is computed over the lookAheadFrames + 1 samples   *)
(* that start there, all of which exist.                                   *)
C9_AbsentIffWindowMissing ==
    op = "analyzeFlickCorrections" =>
        LET hits == PositionsAt(arg.flickFrame)
            n == arg.lookAheadFrames
        IN  /\ ret = None <=> (hits = {} \/ Len(positions) - First(hits) < n)
            /\ ret # None =>
                  LET first == First(hits)
                  IN  /\ first + n <= Len(positions)
                      /\ ret.correctionCount =
                            Cardinality({k \in (first + 1)..(first + n) : StepSquared(k) > 4})
                      /\ ret.correctionCount <= n

C9_Witness ==
    /\ op = "analyzeFlickCorrections"
    /\ ret # None
    /\ arg.lookAheadFrames = 2
    /\ arg.flickFrame > 0
    /\ First(PositionsAt(arg.flickFrame)) + 2 = Len(positions)
    /\ ret.correctionCount = 2
    /\ analyzeFlickCorrections(positions, positions[Len(positions)].frameNumber, 1) = None

(* C10: in a present stability record, stabilizationTime is the timestamp  *)
(* offset, from the first sample of the window, of the first step of the   *)
(* window whose distance is < 2, and the elapsed time of the window when   *)
(* no step of the window has distance < 2.                                 *)
C10_StabilizationTime ==
    (op = "analyzeFlickCorrections" /\ ret # None) =>
        LET first == First(PositionsAt(arg.flickFrame))
            last == first + arg.lookAheadFrames
            still == {k \in (first + 1)..last : StepSquared(k) < 4}
        IN  ret.stabilizationTime =
                IF still # {}
                THEN FloatSub(positions[First(still)].timestamp, positions[first].timestamp)
                ELSE FloatSub(positions[last].timestamp, positions[first].timestamp)

(* C11: in a present stability record, correctionCount is the number and   *)
(* correctionDistance the sum of the distances of exactly those of the     *)
(* lookAheadFrames steps of the window whose distance is > 2.              *)
C11_CorrectionsOverWindow ==
    (op = "analyzeFlickCorrections" /\ ret # None) =>
        LET first == First(PositionsAt(arg.flickFrame))
            n == arg.lookAheadFrames
            d(j) == Sqrt(StepSquared(first + j))
            counted(j) == IF StepSquared(first + j) > 4 THEN d(j) ELSE Float(0)
        IN  /\ ret.correctionCount =
                  Cardinality({j \in 1..n : StepSquared(first + j) > 4})
            /\ ret.correctionDistance = FloatSumSeq([j \in 1..n |-> counted(j)])

C11_Witness ==
    /\ op = "analyzeFlickCorrections"
    /\ ret # None
    /\ arg.lookAheadFrames = 2
    /\ ret.correctionCount = 1
    /\ ret.correctionDistance = Float(3)
    /\ StepSquared(First(PositionsAt(arg.flickFrame)) + 1) = 9
    /\ StepSquared(First(PositionsAt(arg.flickFrame)) + 2) = 4

(* C12: with smoothness > 1000 and maxVelocity < 8000 the reasoner yields  *)
(* too-low with tooLowScore forced to 3, and with smoothness > 1000 and    *)
(* maxVelocity > 15000 it yields too-high with tooHighScore forced to 3,   *)
(* whatever the additive indicators are.                                   *)
C12_ForcedScores ==
    op = "provideDiagnostics" =>
        /\ (FloatGT(arg.smoothness, 1000) /\ FloatLT(arg.maxVelocity, 8000)) =>
              (ret.raised = "none" /\ ret.direction = "too-low" /\ ret.tooLowScore = 3)
        /\ (FloatGT(arg.smoothness, 1000) /\ FloatGT(arg.maxVelocity, 15000)) =>
              (ret.raised = "none" /\ ret.direction = "too-high" /\ ret.tooHighScore = 3)

(* C13: provideDiagnostics produces exactly one verdict for every record:  *)
(* too-low if tooLowScore >= 2, otherwise too-high if tooHighScore >= 2,   *)
(* otherwise reasonable (too-low when both scores are >= 2).               *)
C13_OneVerdict ==
    op = "provideDiagnostics" =>
        /\ ret.raised = "none"
        /\ ret.lowBound /\ ret.highBound
        /\ ret.direction =
              IF ret.tooLowScore >= 2 THEN "too-low"
              ELSE IF ret.tooHighScore >= 2 THEN "too-high"
              ELSE "reasonable"

(* the record of C14 with no high-sensitivity indicator *)
IsC14Record(d) ==
    /\ d.maxVelocity = Float(3000)
    /\ d.avgFlickDistance = Float(250)
    /\ d.velocity95th = Float(3500)
    /\ FloatLE(d.smoothness, 1000)
    /\ 5 * d.correctionCount <= 3 * d.flickCount
    /\ d.microAdjustmentCount <= 2 * d.flickCount

(* C14 as stated: a record with maxVelocity 3000, avgFlickDistance 250,    *)
(* velocity95th 3500 and no high-sensitivity indicator gets too-low with   *)
(* tooLowScore >= 2.                                                       *)
C14_LowSensRecord ==
    (op = "provideDiagnostics" /\ IsC14Record(arg)) =>
        (ret.direction = "too-low" /\ ret.tooLowScore >= 2)

(* C14 amended: such a record gets too-low with tooLowScore >= 2 iff, next *)
(* to its low maxVelocity, at least one of avgVelocity < 1000,             *)
(* largeFlickCount = 0, smallFlickCount > 0.6 * flickCount holds; if none  *)
(* does, tooLowScore is 1 and the verdict is reasonable.                   *)
C14_LowSensAmended ==
    (op = "provideDiagnostics" /\ IsC14Record(arg)) =>
        LET second == \/ FloatLT(arg.avgVelocity, 1000)
                      \/ arg.largeFlickCount = 0
                      \/ 5 * arg.smallFlickCount > 3 * arg.flickCount
        IN  /\ ret.raised = "none"
            /\ second => (ret.direction = "too-low" /\ ret.tooLowScore >= 2)
            /\ ~second => (ret.direction = "reasonable" /\ ret.tooLowScore = 1
                                                          /\ ret.tooHighScore = 0)

C14_Witness ==
    /\ op = "provideDiagnostics"
    /\ IsC14Record(arg)
    /\ arg.flickCount = 5
    /\ arg.largeFlickCount = 0
    /\ arg.avgVelocity = Float(2000)
    /\ ret.direction = "too-low"
    /\ ret.tooLowScore = 2

(* C16: getSummary on an empty position sequence returns, without raising, *)
(* a summary whose counts (totalFrames, flicks.count, trackingSegmentCount)*)
(* are 0 and whose computed values (totalDistance, averageVelocity,        *)
(* maxVelocity, smoothness, the flick averages and maxima,                 *)
(* totalTrackingDistance) are 0.                                           *)
C16_EmptySummary ==
    (op = "getSummary" /\ positions = <<>>) =>
        /\ DOMAIN ret = {"totalFrames", "totalDistance", "averageVelocity", "maxVelocity",
                         "smoothness", "flicks", "trackingSegmentCount",
                         "totalTrackingDistance"}
        /\ ret.totalFrames = 0 /\ ret.trackingSegmentCount = 0
        /\ ret.totalDistance = Float(0) /\ ret.averageVelocity = Float(0)
        /\ ret.maxVelocity = Float(0) /\ ret.smoothness = Float(0)
        /\ ret.totalTrackingDistance = Float(0)
        /\ ret.flicks.count = 0
        /\ ret.flicks.averageDistance = Float(0) /\ ret.flicks.averageVelocity = Float(0)
        /\ ret.flicks.maxDistance = Float(0) /\ ret.flicks.maxVelocity = Float(0)

C16_Witness ==
    /\ op = "getSummary"
    /\ positions = <<>>
    /\ movements = <<>>
    /\ ret.totalFrames = 0
    /\ ret.flicks.count = 0

(* C15: for a position sequence with no movements (length 0 or 1) every    *)
(* derived statistic that is reported is 0 and no operation fails: the     *)
(* summary's average/max velocity, total distance, smoothness and flick    *)
(* means, and the driver's record with its flick and correction means, its *)
(* velocity median and its 95th percentile (the driver reports nothing,    *)
(* None, when no position was tracked).                                    *)
C15_NoMovementStatistics ==
    Len(positions) <= 1 =>
        /\ op = "getSummary" =>
              /\ ret.totalDistance = Float(0) /\ ret.averageVelocity = Float(0)
              /\ ret.maxVelocity = Float(0) /\ ret.smoothness = Float(0)
              /\ ret.flicks.averageDistance = Float(0)
              /\ ret.flicks.averageVelocity = Float(0)
        /\ op = "analyzeTdmGameplay" =>
              \/ ret = None
              \/ /\ "raised" \notin DOMAIN ret
                 /\ ret.totalDistance = Float(0) /\ ret.avgVelocity = Float(0)
                 /\ ret.maxVelocity = Float(0) /\ ret.smoothness = Float(0)
                 /\ ret.avgFlickDistance = Float(0)
                 /\ ret.avgCorrectionDistance = Float(0)
                 /\ ret.velocityMedian = Float(0)
                 /\ ret.velocity95th = Float(0)

(* C19: the driver records a reversal correction event for a movement iff  *)
(* the immediately preceding movement has velocity > 1500 and the          *)
(* movement's direction is more than 90 degrees away from the preceding    *)
(* movement's direction (their dot product is negative); every qualifying  *)
(* consecutive pair yields its own event, also when pairs chain.           *)
C19_ReversalEvents ==
    (op = "analyzeTdmGameplay" /\ "correctionCount" \in DOMAIN ret) =>
        LET ms == DriverMovements(positions)
            qualifies(i) ==
                /\ FloatGT(ms[i - 1].velocity, 1500)
                /\ Dot(AngleVector(ms[i - 1]), AngleVector(ms[i])) < 0
        IN  /\ \E over \in [RoundedAngles(ms) -> BOOLEAN] :
                  LET events == DriverCorrections(ms, over)
                  IN  /\ Len(events) = ret.correctionCount
                      /\ \A i \in 2..Len(ms) :
                            (\E k \in 1..Len(events) : events[k].frame = ms[i].frameStart)
                                <=> qualifies(i)
            /\ ret.correctionCount = Cardinality({i \in 2..Len(ms) : qualifies(i)})

IsSixPositions ==
    /\ Len(positions) = 6
    /\ positions[2].x = 10 /\ positions[4].x = 110
    /\ positions = SixPositions

(* C20: for the six positions (0,0,t=0.0) (10,0,t=0.01) (10,0,t=0.02)      *)
(* (110,0,t=0.03) (110,0,t=0.04) (110,0,t=1.0) the second movement has     *)
(* velocity 0, the third has distance 100 and velocity 10000, and with     *)
(* velocityThreshold 2000 the third movement is the only flick and is in   *)
(* the medium tier; the first movement, at 1000 px/s, is not a flick.      *)
C20_SixPositions ==
    IsSixPositions =>
        /\ Len(movements) = 5
        /\ movements[1].velocity = Float(1000)
        /\ movements[2].velocity = Float(0)
        /\ movements[3].distance = Float(100)
        /\ movements[3].velocity = Float(10000)
        /\ (op = "detectFlicks" /\ arg.velocityThreshold = 2000) =>
              ret = <<Flick(movements[3])>>
        /\ (op = "detectFlicksByDistance" /\ arg.velocityThreshold = 2000) =>
              /\ ret.small = <<>>
              /\ ret.medium = <<FlickData(movements[3])>>
              /\ ret.large = <<>>

(* C20 amended: as above, but the velocity of the third movement is the    *)
(* float next above 10000, 10000 + 2^-39 (10000.000000000002), because     *)
(* 0.03 - 0.02 is a float below 0.01; the velocity of the first,           *)
(* 10 / (0.01 - 0.0), is 1000 itself.                                      *)
C20_SixPositionsRounded ==
    IsSixPositions =>
        /\ Len(movements) = 5
        /\ movements[1].velocity = Float(1000)
        /\ movements[2].velocity = Float(0)
        /\ movements[3].distance = Float(100)
        /\ FloatSub(movements[3].velocity, Float(10000)) = FloatDivide(Rat(1, 2^30), Float(2^9))
        /\ (op = "detectFlicks" /\ arg.velocityThreshold = 2000) =>
              ret = <<Flick(movements[3])>>
        /\ (op = "detectFlicksByDistance" /\ arg.velocityThreshold = 2000) =>
              /\ ret.small = <<>>
              /\ ret.medium = <<FlickData(movements[3])>>
              /\ ret.large = <<>>

C20_Witness ==
    /\ IsSixPositions
    /\ op = "detectFlicksByDistance"
    /\ arg.velocityThreshold = 2000
    /\ Len(ret.medium) = 1
    /\ ret.medium[1].frameStart = 2
    /\ ret.medium[1].frameEnd = 3

(* C17: the result of getFlickAnalysisByDistance always has the three keys *)
(* small, medium and large, for every position sequence and threshold; a   *)
(* tier without flicks maps to a record whose count and five averages are  *)
(* all 0.                                                                  *)
TierKeys ==
    {"count", "avgDistance", "avgVelocity", "avgCorrectionCount",
     "avgCorrectionDistance", "avgStabilizationTime"}

C17_ThreeTiersAlways ==
    op = "getFlickAnalysisByDistance" =>
        LET byDistance == detectFlicksByDistance(movements, arg.velocityThreshold)
        IN  /\ DOMAIN ret = {"small", "medium", "large"}
            /\ \A tier \in {"small", "medium", "large"} :
                  /\ DOMAIN ret[tier] = TierKeys
                  /\ byDistance[tier] = <<>> =>
                        /\ ret[tier].count = 0
                        /\ \A key \in TierKeys \ {"count"} : ret[tier][key] = Float(0)

C17_Witness ==
    /\ op = "getFlickAnalysisByDistance"
    /\ ret.small.count = 0
    /\ ret.small.avgStabilizationTime = Float(0)
    /\ ret.medium.count > 0
    /\ ret.large.count = 0

(* the elements of a finite set of ints, in increasing order *)
Ascending(S) ==
    [k \in 1..Cardinality(S) |-> CHOOSE i \in S : Cardinality({j \in S : j <= i}) = k]

(* C18: a tier's avgCorrectionCount, avgCorrectionDistance and             *)
(* avgStabilizationTime are the means over only those flicks of the tier   *)
(* whose stability lookup (by the flick's frameEnd) is present; when none  *)
(* is present the three averages are 0, and count counts every flick.      *)
C18_MeansOverPresent ==
    op = "getFlickAnalysisByDistance" =>
        LET byDistance == detectFlicksByDistance(movements, arg.velocityThreshold)
        IN  \A tier \in {"small", "medium", "large"} :
                LET flicks == byDistance[tier]
                    lookup(k) == analyzeFlickCorrections(positions, flicks[k].frameEnd, 10)
                    present == {k \in 1..Len(flicks) : lookup(k) # None}
                    at == Ascending(present)
                    counts == [k \in 1..Len(at) |-> lookup(at[k]).correctionCount]
                    distances == [k \in 1..Len(at) |-> lookup(at[k]).correctionDistance]
                    times == [k \in 1..Len(at) |-> lookup(at[k]).stabilizationTime]
                IN  /\ ret[tier].count = Len(flicks)
                    /\ present = {} =>
                          /\ ret[tier].avgCorrectionCount = Float(0)
                          /\ ret[tier].avgCorrectionDistance = Float(0)
                          /\ ret[tier].avgStabilizationTime = Float(0)
                    /\ present # {} =>
                          /\ ret[tier].avgCorrectionCount =
                                 Rat(SumSeq(counts), Cardinality(present))
                          /\ ret[tier].avgCorrectionDistance = FloatMean(distances)
                          /\ ret[tier].avgStabilizationTime = FloatMean(times)

(* a medium tier of two flicks, the first with a stability record (one     *)
(* correction of 100px, the second flick) and the second without           *)
C18_Witness ==
    /\ op = "getFlickAnalysisByDistance"
    /\ arg.velocityThreshold = DefaultFlickThreshold
    /\ ret.medium.count = 2
    /\ analyzeFlickCorrections(positions, 1, 10) # None
    /\ analyzeFlickCorrections(positions, 2, 10) = None
    /\ ret.medium.avgCorrectionCount = Float(1)
    /\ ret.medium.avgCorrectionDistance = Float(100)

(* C21: in every reachable state of an instance, also after the caller     *)
(* appended a sample to the list it passed in, movements is the derivation *)
(* of the current positions, so Len(movements) = Len(positions) - 1 (0 for *)
(* fewer than 2 positions) and a detected flick ends at a frame whose      *)
(* look-ahead window starts at the flick's end position.                   *)
C21_MovementsFollowPositions ==
    /\ Len(movements) = Max(Len(positions) - 1, 0)
    /\ movements = calculateMovements(positions)

(* C22: no analysis operation (detectFlicks, detectFlicksByDistance,       *)
(* analyzeFlickCorrections, getFlickAnalysisByDistance, getFlickStats,     *)
(* getTrackingSegments, getSmoothness, getSummary) changes the instance's  *)
(* positions or movements, and the same call made again on the instance    *)
(* as the call left it returns the same result.                            *)
AnalysisOps ==
    {"detectFlicks", "detectFlicksByDistance", "analyzeFlickCorrections",
     "getFlickAnalysisByDistance", "getFlickStats", "getTrackingSegments",
     "getSmoothness", "getSummary"}

CallResult(o, a, pos, ms) ==
    CASE o = "detectFlicks" -> detectFlicks(ms, a.velocityThreshold)
      [] o = "detectFlicksByDistance" -> detectFlicksByDistance(ms, a.velocityThreshold)
      [] o = "analyzeFlickCorrections" ->
             analyzeFlickCorrections(pos, a.flickFrame, a.lookAheadFrames)
      [] o = "getFlickAnalysisByDistance" ->
             getFlickAnalysisByDistance(pos, ms, a.velocityThreshold)
      [] o = "getFlickStats" -> getFlickStats(ms, a.velocityThreshold)
      [] o = "getTrackingSegments" -> getTrackingSegments(ms, a.velocityThreshold)
      [] o = "getSmoothness" -> getSmoothness(ms)
      [] o = "getSummary" -> getSummary(pos, ms)

C22_AnalysisIsPure ==
    [][(op' \in AnalysisOps) =>
          /\ positions' = positions
          /\ movements' = movements
          /\ ret' = CallResult(op', arg', positions', movements')]_vars

C22_Witness ==
    /\ op = "getSmoothness"
    /\ Len(movements) = 3
    /\ movements = calculateMovements(positions)
    /\ ret = getSmoothness(movements)
    /\ ret # Float(0)

(* C23: getSmoothness returns the standard deviation of the consecutive    *)
(* velocity deltas v[i] - v[i-1] of the movement list, and 0 when there    *)
(* are fewer than 2 movements.                                             *)
C23_StdOfVelocityDeltas ==
    op = "getSmoothness" =>
        IF Len(movements) < 2 THEN ret = Float(0)
        ELSE ret = Std([i \in 1..(Len(movements) - 1) |->
                           FloatSub(movements[i + 1].velocity, movements[i].velocity)])

(* C24: in the accuracy-scoring extension every flick that has a nearest   *)
(* target at non-zero distance from the flick start is classified into     *)
(* exactly one of overshoot (projection error > 15), undershoot (error <   *)
(* -15) and on-target (error in [-15, 15]); the three counts sum to        *)
(* totalFlicks, and the function returns None when no flick was classified.*)
Classified(i) ==
    LET prev == positions[i]
        curr == positions[i + 1]
        frame == arg.video[curr.frameNumber]
        nearest == findNearestTarget(<<curr.x, curr.y>>, frame.targets, 300)
    IN  /\ FloatGT(Movement(prev, curr).velocity, arg.velocityThreshold)
        /\ frame.readable
        /\ nearest # None
        /\ nearest.x # prev.x \/ nearest.y # prev.y

ClassifiedAs(i, category) ==
    LET flickData == FlickAccuracy(positions, arg.video, i, arg.velocityThreshold)
    IN  flickData # None /\ flickData.category = category

ExpectedCategory(i) ==
    LET error == FlickAccuracy(positions, arg.video, i, arg.velocityThreshold).error
    IN  IF FloatGT(error, 15) THEN "overshoot"
        ELSE IF FloatLT(error, 0 - 15) THEN "undershoot"
        ELSE "on-target"

C24_OneCategoryPerFlick ==
    op = "analyzeFlickAccuracyWithTargets" =>
        LET flicks == {i \in 1..(Len(positions) - 1) : Classified(i)}
            in(category) == {i \in flicks : ClassifiedAs(i, category)}
        IN  /\ \A i \in flicks :
                  \A category \in {"overshoot", "undershoot", "on-target"} :
                      ClassifiedAs(i, category) <=> category = ExpectedCategory(i)
            /\ \A i \in 1..(Len(positions) - 1) :
                  i \notin flicks =>
                      FlickAccuracy(positions, arg.video, i, arg.velocityThreshold) = None
            /\ flicks = {} <=> ret = None
            /\ flicks # {} =>
                  /\ ret.totalFlicks = Cardinality(flicks)
                  /\ ret.overshootCount = Cardinality(in("overshoot"))
                  /\ ret.undershootCount = Cardinality(in("undershoot"))
                  /\ ret.onTargetCount = Cardinality(in("on-target"))
                  /\ ret.overshootCount + ret.undershootCount + ret.onTargetCount
                        = ret.totalFlicks

(* two flicks: the first ends 15px beyond its target (on-target, the edge  *)
(* of the band), the second is an undershoot                               *)
C24_Witness ==
    /\ op = "analyzeFlickAccuracyWithTargets"
    /\ Len(positions) = 3
    /\ arg.video[1].targets = <<Target(85, 0, 90)>>
    /\ ret # None
    /\ ret.totalFlicks = 2
    /\ ret.onTargetCount = 1
    /\ ret.undershootCount = 1
    /\ ret.overshootCount = 0

(* C25: in the stability analyzer a look-ahead step of distance exactly 2  *)
(* is not counted as a correction (it adds nothing to correctionCount or   *)
(* correctionDistance) and is not stabilizing (it does not set             *)
(* stabilizationTime): a window with such a step has the counts of its     *)
(* steps over 2px and the stabilization time of its steps under 2px, the   *)
(* elapsed time of the window when the latter set none.                    *)
C25_ExactlyTwoPixels ==
    (op = "analyzeFlickCorrections" /\ ret # None) =>
        LET first == First(PositionsAt(arg.flickFrame))
            n == arg.lookAheadFrames
            twos == {j \in 1..n : StepSquared(first + j) = 4}
            over == {j \in 1..n : StepSquared(first + j) > 4}
            under == {j \in 1..n : StepSquared(first + j) < 4}
            offset(j) == FloatSub(positions[first + j].timestamp, positions[first].timestamp)
        IN  twos # {} =>
              /\ ret.correctionCount = Cardinality(over)
              /\ ret.correctionDistance =
                    FloatSumSeq([j \in 1..n |->
                                   IF j \in over THEN Sqrt(StepSquared(first + j))
                                   ELSE Float(0)])
              /\ ret.stabilizationTime =
                    IF under # {} /\ Sign(offset(First(under))) # 0
                    THEN offset(First(under))
                    ELSE offset(n)

(* a window whose first step is 2px and whose second step is 1px: no       *)
(* correction, stabilized at the second step                               *)
C25_Witness ==
    /\ op = "analyzeFlickCorrections"
    /\ ret # None
    /\ arg.lookAheadFrames = 2
    /\ Len(positions) = 4
    /\ StepSquared(First(PositionsAt(arg.flickFrame)) + 1) = 4
    /\ StepSquared(First(PositionsAt(arg.flickFrame)) + 2) = 1
    /\ ret.correctionCount = 0
    /\ ret.correctionDistance = Float(0)
    /\ ret.stabilizationTime = Rat(2, 64)

(* C26: findNearestTarget returns None when the target list is empty or no *)
(* target is at distance < maxDistance from the crosshair; otherwise it    *)
(* returns a copy, with the distance attached, of the first of the targets *)
(* at minimal distance; the target list and its records are left as given. *)
SquaredDistance(k) ==
    (arg.crosshairPos[1] - arg.given[k].x) * (arg.crosshairPos[1] - arg.given[k].x)
    + (arg.crosshairPos[2] - arg.given[k].y) * (arg.crosshairPos[2] - arg.given[k].y)

C26_NearestTarget ==
    op = "findNearestTarget" =>
        LET n == Len(arg.given)
            within == {k \in 1..n : SquaredDistance(k) < arg.maxDistance * arg.maxDistance}
            nearest == {k \in 1..n : \A j \in 1..n : SquaredDistance(k) <= SquaredDistance(j)}
        IN  /\ arg.targets = arg.given
            /\ ret = None <=> within = {}
            /\ ret # None =>
                  LET k == First(nearest)
                  IN  /\ k \in within
                      /\ DOMAIN ret = DOMAIN arg.given[k] \cup {"distance"}
                      /\ \A key \in DOMAIN arg.given[k] : ret[key] = arg.given[k][key]
                      /\ Sign(ret.distance) >= 0
                      /\ ret.distance = Sqrt(SquaredDistance(k))

(* three targets at distance 5 after one at 300: the first of the three *)
C26_Witness ==
    /\ op = "findNearestTarget"
    /\ arg.given = <<Target(300, 0, 90), Target(4, 3, 60), Target(3, 4, 90)>>
    /\ arg.maxDistance = 300
    /\ ret # None
    /\ ret.x = 4
    /\ ret.confidence = 60
    /\ ret.distance = Float(5)

(* C27 as stated: with the default thresholds (flick 2000, tracking 500)   *)
(* no movement is both a flick and a member of a tracking segment, so the  *)
(* sum of all flick distances plus the summary's totalTrackingDistance     *)
(* does not exceed totalDistance.                                          *)
C27_FlicksAndTrackingDisjoint ==
    op = "getSummary" =>
        LET flicks == detectFlicks(movements, 2000)
            segments == getTrackingSegments(movements, 500)
            inSegment(i) ==
                \E k \in 1..Len(segments) :
                    /\ segments[k].startFrame <= movements[i].frameStart
                    /\ movements[i].frameEnd <= segments[k].endFrame
        IN  /\ \A i \in 1..Len(movements) : ~(FasterThan(i, 2000) /\ inSegment(i))
            /\ ret.totalTrackingDistance = FloatSumSeq(Distances(segments))
            /\ ~FloatLess(ret.totalDistance,
                         FloatAdd(FloatSumSeq(Distances(flicks)), ret.totalTrackingDistance))

(* C27 amended: no movement is both a flick and a member of a tracking     *)
(* segment, and the sum of all flick distances plus totalTrackingDistance  *)
(* does not exceed totalDistance by more than the rounding of the sums     *)
(* (the three sums add the same distances in different orders): it is      *)
(* below totalDistance + 2^-20, and above totalDistance for some inputs.   *)
C27_DisjointUpToRounding ==
    op = "getSummary" =>
        LET flicks == detectFlicks(movements, 2000)
            segments == getTrackingSegments(movements, 500)
            inSegment(i) ==
                \E k \in 1..Len(segments) :
                    /\ segments[k].startFrame <= movements[i].frameStart
                    /\ movements[i].frameEnd <= segments[k].endFrame
        IN  /\ \A i \in 1..Len(movements) : ~(FasterThan(i, 2000) /\ inSegment(i))
            /\ ret.totalTrackingDistance = FloatSumSeq(Distances(segments))
            /\ FloatLess(FloatSub(FloatAdd(FloatSumSeq(Distances(flicks)),
                                           ret.totalTrackingDistance),
                                  ret.totalDistance),
                         Rat(1, 2^20))

(* a flick of sqrt(1025) px and a tracking run of sqrt(50), sqrt(34) and   *)
(* sqrt(53) px: the two sums add up to more than the sum of the four       *)
C27_Witness ==
    /\ op = "getSummary"
    /\ ret.flicks.count = 1
    /\ ret.trackingSegmentCount = 1
    /\ Len(movements) = 4
    /\ FloatLess(ret.totalDistance,
                 FloatAdd(ret.flicks.maxDistance, ret.totalTrackingDistance))

(* C28: for n positions with unique frame numbers, the flick formed by the *)
(* movement ending at position index i (from 0) contributes a stability    *)
(* record to getFlickAnalysisByDistance iff i + 10 <= n - 1: a tier's      *)
(* correction averages are the means over the windows of exactly those     *)
(* flicks (0 when there is none), so flicks among the last 10 movements    *)
(* never contribute, while count, avgDistance and avgVelocity are over     *)
(* every flick of the tier.                                                *)
UniqueFrames ==
    \A i, j \in 1..Len(positions) :
        positions[i].frameNumber = positions[j].frameNumber => i = j

TierOf(i) ==
    IF MoveSquared(i) < 100 * 100 THEN "small"
    ELSE IF MoveSquared(i) < 300 * 300 THEN "medium"
    ELSE "large"

C29_TooHighNeedsVelocity ==
    op = "provideDiagnostics" =>
        /\ ret.direction = "too-high" => FloatGT(arg.maxVelocity, HighMaxVelocityLimit)
        /\ (ret.direction = "too-low" /\ Indicators(arg).lotsOfSmallFlicks) =>
              /\ arg.flickCount > 0
              /\ ret.raised # "ZeroDivisionError"

(* the too-high verdict, for a record with mostly small flicks *)
C29_Witness ==
    /\ op = "provideDiagnostics"
    /\ ret.direction = "too-high"
    /\ ret.raised = "none"
    /\ ret.tooHighScore = 2
    /\ arg.maxVelocity = Float(16000)
    /\ Indicators(arg).lotsOfSmallFlicks

(* the samples appended so far: strictly increasing frame numbers, each a  *)
(* multiple of sampleRate and less than the number of frames read, and     *)
(* non-decreasing timestamps                                               *)
SamplesInOrder ==
    \A i \in 1..Len(positions) :
        /\ positions[i].frameNumber % arg.sampleRate = 0
        /\ positions[i].frameNumber < arg.frameNumber
        /\ \A j \in (i + 1)..Len(positions) :
              /\ positions[i].frameNumber < positions[j].frameNumber
              /\ ~FloatLess(positions[j].timestamp, positions[i].timestamp)

LoopState ==
    /\ op = "frameLoop" => SamplesInOrder
    /\ (op = "trackCrosshairInVideo" /\ ret.raised = "none") =>
          /\ SamplesInOrder
          /\ arg.frameNumber = Len(arg.video)
          /\ ret.crosshairPositions = positions

(* the loop has ended at the exhaustion of the frame source: every frame   *)
(* was read and the list is returned                                       *)
Exhausted ==
    /\ op = "trackCrosshairInVideo"
    /\ ret.raised = "none"
    /\ arg.frameNumber = Len(arg.video)

(* C30: for any video and sampleRate >= 1, the frame loop of               *)
(* trackCrosshairInVideo appends samples with strictly increasing          *)
(* frameNumber (no duplicates) and non-decreasing timestamp, each          *)
(* frameNumber a multiple of sampleRate and less than the number of frames *)
(* read, and the loop ends when the frame source is exhausted.             *)
C30_FrameLoop ==
    /\ []LoopState
    /\ (op = "frameLoop") ~> Exhausted

(* a video whose frame rate reads 0.0, with the crosshair in its first     *)
(* frame: the first iteration raises and no list is returned               *)
C30_Witness ==
    /\ op = "trackCrosshairInVideo"
    /\ ret.raised = "ZeroDivisionError"
    /\ arg.fps = Float(0)
    /\ arg.sampleRate = 1
    /\ arg.frameNumber = 0
    /\ arg.video = <<(<<960, 540>>), (<<0, 0>>)>>

(* the same for the videos with a positive frame rate: the samples are in  *)
(* order and the loop ends at the exhaustion of the frame source           *)
FrameLoopPositiveRate ==
    /\ []LoopState
    /\ (op = "frameLoop" /\ arg.fps # Float(0)) ~> Exhausted

(* four frames at 30 fps with the crosshair in each, sampleRate 2: the     *)
(* samples are frames 0 and 2                                              *)
SampledEverySecondFrame ==
    /\ op = "trackCrosshairInVideo"
    /\ ret.raised = "none"
    /\ arg.sampleRate = 2
    /\ arg.fps = Float(30)
    /\ arg.video = <<(<<960, 540>>), (<<0, 0>>), (<<0, 0>>), (<<960, 540>>)>>
    /\ Len(positions) = 2
    /\ positions[1] = [frameNumber |-> 0, x |-> 960, y |-> 540, timestamp |-> Float(0)]
    /\ positions[2] = [frameNumber |-> 2, x |-> 0, y |-> 0, timestamp |-> Rat(1, 15)]

====
